---- MODULE Spec2Model ----
(***************************************************************************)
(* Intercom -> Caplena extractor: the transcript extractor/filter          *)
(* (IntercomService.extractTranscriptData), the destination-row            *)
(* deduplicator (CaplenaRowManager) and the batch uploader                 *)
(* (CaplenaService.uploadConversations).                                   *)
(*                                                                         *)
(* Strings of the program are sequences of one-character strings, so that  *)
(* tag stripping, trimming, case folding and concatenation are computed.   *)
(* A character outside ASCII is written by its code point ("u2019").       *)
(* A JavaScript value that may be null/undefined is a sequence of length   *)
(* 0 (absent) or 1 (present).                                              *)
(***************************************************************************)
EXTENDS Integers, Sequences, FiniteSets, TLC

VARIABLES
    \* extractor
    conversation,   \* the argument of extractTranscriptData
    transcript,     \* its return value
    exPc,           \* "ready" | "done"
    \* deduplicator
    projectRows,    \* the rows of the destination project, in listing order
    deletedIds,     \* ids of the rows the destination has deleted
    ddCaller,       \* the entry point: "deduplicateProject" | "deleteDuplicates"
    ddPc,           \* position in deduplicateProject / getAllRows / deleteDuplicates
    page,           \* getAllRows: page
    hasMore,        \* getAllRows: hasMore
    allRows,        \* getAllRows: allRows
    duplicates,     \* the result of identifyDuplicates / argument of deleteDuplicates
    delI,           \* deleteDuplicates: i (1-based)
    results,        \* deleteDuplicates: results
    requestLog,     \* the requests sent to the destination, in order
    ddRet,          \* the return value of the entry point, once returned
    \* uploader
    conversations,  \* the transcripts passed to uploadConversations
    caplenaRows,    \* uploadConversations: caplenaRows
    batches,        \* uploadConversations: batches
    upI,            \* uploadConversations: i (1-based)
    uploadResults,  \* uploadConversations: uploadResults
    totalUploaded,  \* uploadConversations: totalUploaded
    upPc,           \* position in uploadConversations
    postLog,        \* the bulk-write requests sent, in order: [index, rows]
    postInFlight,   \* indexes of the batches whose request has no answer yet
    postFailed,     \* indexes of the batches whose request failed
    upRet,          \* the return value of uploadConversations, once returned
    \* fetcher
    srcFresh,       \* number of conversations of the source updated at or after the threshold
    srcOlder,       \* number of conversations of the source updated before the threshold
    srcKinds,       \* what the detail of each conversation of the source carries
    srcPageCap,     \* the number of summaries the source puts on a page
    srcListHasParts, \* whether the source embeds the conversation parts in list items
    srcNext,        \* the pages.next the source answers with, per last position of a page
    fetchCaller,    \* the entry point of IntercomService that was called
    fetchPc,        \* position in that method
    limit,          \* its limit argument (absent: null)
    pageNo,         \* page / pageCount
    startingAfter,  \* the cursor sent with the next list request
    fetchHasMore,   \* hasMore
    fetched,        \* conversations: the records accumulated so far
    intercomLog,    \* the requests sent to the source, in order
    listFailed,     \* whether a list request has failed
    processedIds,   \* processedConversationIds
    toProcess,      \* conversationsToProcess of the current page
    slots,          \* conversationPromises: per conversation, its state and value
    detailFailed,   \* ids of the conversations whose detail request failed
    totalProcessed, \* totalProcessed
    fetchRet,       \* the return value of the entry point, once returned
    \* daily sync
    syncPc,         \* position in syncNewConversations
    transcripts,    \* syncNewConversations: transcripts
    project,        \* syncNewConversations: project
    syncRet,        \* the return value of syncNewConversations, once returned
    \* CSV exporter
    csvMode,        \* "exportToCSV" | "appendTranscript": how the file is written
    csvTranscripts, \* the transcripts to write
    csvPc,          \* "idle" | "start" | "append" | "written" | "read"
    csvI,           \* the transcript appendTranscript is called with next
    csvFile,        \* the content of the file at outputPath, absent without file
    csvContent,     \* the return value of convertToCSV
    headersWritten, \* this.headersWritten
    initialized,    \* this.initialized
    fileHandle,     \* whether this.fileHandle is open
    csvData,        \* the return value of readExistingCSV
    csvCalls,       \* the calls a caller has made on the exporter, with their outcome
    \* startup of an entry point
    entryPoint,     \* the script that node was started with
    envVars,        \* the names of the credentials process.env holds
    loadStack,      \* the modules being loaded: [module, next], innermost last
    loadedModules,  \* the modules require has begun or finished loading
    startPc,        \* "idle" | "loading" | "failed" | "running"
    activityLog     \* the requests sent and files written by the process

extractVars == <<conversation, transcript, exPc>>
dedupVars == <<projectRows, deletedIds, ddCaller, ddPc, page, hasMore, allRows,
               duplicates, delI, results, requestLog, ddRet>>
uploadVars == <<conversations, caplenaRows, batches, upI, uploadResults, totalUploaded,
                upPc, postLog, postInFlight, postFailed, upRet>>
srcVars == <<srcFresh, srcOlder, srcKinds, srcPageCap, srcListHasParts, srcNext>>
pageVars == <<processedIds, toProcess, slots, detailFailed, totalProcessed>>
fetchVars == <<srcVars, pageVars, fetchCaller, fetchPc, limit, pageNo, startingAfter,
               fetchHasMore, fetched, intercomLog, listFailed, fetchRet>>
syncVars == <<syncPc, transcripts, project, syncRet>>
startVars == <<entryPoint, envVars, loadStack, loadedModules, startPc, activityLog>>
csvVars == <<csvMode, csvTranscripts, csvPc, csvI, csvFile, csvContent, headersWritten,
             initialized, fileHandle, csvData, csvCalls>>

None == <<>>
Some(x) == <<x>>
IsSome(m) == m # <<>>
Get(m) == m[1]

Min(a, b) == IF a < b THEN a ELSE b

(***************************************************************************)
(* String primitives (JavaScript String.prototype / RegExp semantics)      *)
(***************************************************************************)

\* \s of a JavaScript regular expression, and the characters trim() removes
WhitespaceChars == {" ", "\t", "\n", "\r", "u00A0"}

UpperChars == <<"A","B","C","D","E","F","G","H","I","J","K","L","M","N","O","P","Q","R","S","T","U","V","W","X","Y","Z">>
LowerChars == <<"a","b","c","d","e","f","g","h","i","j","k","l","m","n","o","p","q","r","s","t","u","v","w","x","y","z">>

ToLowerChar(c) ==
    IF \E i \in 1..Len(UpperChars) : UpperChars[i] = c
    THEN LowerChars[CHOOSE i \in 1..Len(UpperChars) : UpperChars[i] = c]
    ELSE c

RECURSIVE MapChars(_, _)
MapChars(Op(_), s) ==
    IF s = <<>> THEN <<>> ELSE <<Op(Head(s))>> \o MapChars(Op, Tail(s))

\* s.toLowerCase()
ToLowerCase(s) == MapChars(ToLowerChar, s)

\* s.replace(/[‘’]/g, "'")
NormalizeApostropheChar(c) == IF c \in {"u2018", "u2019"} THEN "'" ELSE c
NormalizeApostrophes(s) == MapChars(NormalizeApostropheChar, s)

\* s.replace(/[“”]/g, '"')
NormalizeQuoteChar(c) == IF c \in {"u201C", "u201D"} THEN "\"" ELSE c
NormalizeQuotes(s) == MapChars(NormalizeQuoteChar, s)

RECURSIVE TrimStart(_)
TrimStart(s) ==
    IF s # <<>> /\ Head(s) \in WhitespaceChars THEN TrimStart(Tail(s)) ELSE s

RECURSIVE TrimEnd(_)
TrimEnd(s) ==
    IF s # <<>> /\ s[Len(s)] \in WhitespaceChars
    THEN TrimEnd(SubSeq(s, 1, Len(s) - 1))
    ELSE s

\* s.trim()
Trim(s) == TrimEnd(TrimStart(s))

\* s.replace(/\s+/g, ' '): every maximal run of whitespace becomes one space
RECURSIVE CollapseWhitespace(_)
CollapseWhitespace(s) ==
    IF s = <<>> THEN <<>>
    ELSE IF Head(s) \in WhitespaceChars
         THEN <<" ">> \o CollapseWhitespace(TrimStart(s))
         ELSE <<Head(s)>> \o CollapseWhitespace(Tail(s))

\* s.replace(/<[^>]*>/g, ''): a "<" up to the next ">" is removed; a "<" that
\* no ">" follows stays
RECURSIVE StripTags(_)
StripTags(s) ==
    IF s = <<>> THEN <<>>
    ELSE IF Head(s) = "<" /\ \E j \in 2..Len(s) : s[j] = ">"
         THEN LET close == CHOOSE j \in 2..Len(s) :
                              s[j] = ">" /\ \A k \in 2..(j - 1) : s[k] # ">"
              IN  StripTags(SubSeq(s, close + 1, Len(s)))
         ELSE <<Head(s)>> \o StripTags(Tail(s))

(***************************************************************************)
(* Extractor/Filter: IntercomService.extractTranscriptData                 *)
(***************************************************************************)

stockResponses == <<
    \* Not just yet, thank you.
    <<"N","o","t"," ","j","u","s","t"," ","y","e","t",","," ","t","h","a","n","k"," ","y","o","u",".">>,
    \* No, thanks.
    <<"N","o",","," ","t","h","a","n","k","s",".">>,
    \* Yes, please.
    <<"Y","e","s",","," ","p","l","e","a","s","e",".">>,
    \* I have a question.
    <<"I"," ","h","a","v","e"," ","a"," ","q","u","e","s","t","i","o","n",".">>,
    \* It sounds great, please send it over.
    <<"I","t"," ","s","o","u","n","d","s"," ","g","r","e","a","t",","," ","p","l","e","a","s","e"," ","s","e","n","d"," ","i","t"," ","o","v","e","r",".">>,
    \* Thank you.
    <<"T","h","a","n","k"," ","y","o","u",".">>,
    \* Thanks.
    <<"T","h","a","n","k","s",".">>,
    \* No thank you.
    <<"N","o"," ","t","h","a","n","k"," ","y","o","u",".">>,
    \* No, thank you.
    <<"N","o",","," ","t","h","a","n","k"," ","y","o","u",".">>,
    \* Yes thank you.
    <<"Y","e","s"," ","t","h","a","n","k"," ","y","o","u",".">>,
    \* Please send it over.
    <<"P","l","e","a","s","e"," ","s","e","n","d"," ","i","t"," ","o","v","e","r",".">>,
    \* Please send it.
    <<"P","l","e","a","s","e"," ","s","e","n","d"," ","i","t",".">>,
    \* Send it over.
    <<"S","e","n","d"," ","i","t"," ","o","v","e","r",".">>,
    \* Send it please.
    <<"S","e","n","d"," ","i","t"," ","p","l","e","a","s","e",".">>,
    \* I would like to receive it.
    <<"I"," ","w","o","u","l","d"," ","l","i","k","e"," ","t","o"," ","r","e","c","e","i","v","e"," ","i","t",".">>,
    \* I would like to receive the catalogue.
    <<"I"," ","w","o","u","l","d"," ","l","i","k","e"," ","t","o"," ","r","e","c","e","i","v","e"," ","t","h","e"," ","c","a","t","a","l","o","g","u","e",".">>,
    \* I would like to receive the catalog.
    <<"I"," ","w","o","u","l","d"," ","l","i","k","e"," ","t","o"," ","r","e","c","e","i","v","e"," ","t","h","e"," ","c","a","t","a","l","o","g",".">>,
    \* Please send me the catalogue.
    <<"P","l","e","a","s","e"," ","s","e","n","d"," ","m","e"," ","t","h","e"," ","c","a","t","a","l","o","g","u","e",".">>,
    \* Please send me the catalog.
    <<"P","l","e","a","s","e"," ","s","e","n","d"," ","m","e"," ","t","h","e"," ","c","a","t","a","l","o","g",".">>,
    \* I would be interested in receiving a catalogue.
    <<"I"," ","w","o","u","l","d"," ","b","e"," ","i","n","t","e","r","e","s","t","e","d"," ","i","n"," ","r","e","c","e","i","v","i","n","g"," ","a"," ","c","a","t","a","l","o","g","u","e",".">>,
    \* I would be interested in receiving a catalog.
    <<"I"," ","w","o","u","l","d"," ","b","e"," ","i","n","t","e","r","e","s","t","e","d"," ","i","n"," ","r","e","c","e","i","v","i","n","g"," ","a"," ","c","a","t","a","l","o","g",".">>,
    \* I would be interested in receiving a cataloque.
    <<"I"," ","w","o","u","l","d"," ","b","e"," ","i","n","t","e","r","e","s","t","e","d"," ","i","n"," ","r","e","c","e","i","v","i","n","g"," ","a"," ","c","a","t","a","l","o","q","u","e",".">>,
    \* I would be interested in receiving a cataloque. My name is
    <<"I"," ","w","o","u","l","d"," ","b","e"," ","i","n","t","e","r","e","s","t","e","d"," ","i","n"," ","r","e","c","e","i","v","i","n","g"," ","a"," ","c","a","t","a","l","o","q","u","e","."," ","M","y"," ","n","a","m","e"," ","i","s">>,
    \* I would be interested in receiving a cataloque. My name is A
    <<"I"," ","w","o","u","l","d"," ","b","e"," ","i","n","t","e","r","e","s","t","e","d"," ","i","n"," ","r","e","c","e","i","v","i","n","g"," ","a"," ","c","a","t","a","l","o","q","u","e","."," ","M","y"," ","n","a","m","e"," ","i","s"," ","A">>,
    \* I would be interested in receiving a cataloque. My name is A Lawson
    <<"I"," ","w","o","u","l","d"," ","b","e"," ","i","n","t","e","r","e","s","t","e","d"," ","i","n"," ","r","e","c","e","i","v","i","n","g"," ","a"," ","c","a","t","a","l","o","q","u","e","."," ","M","y"," ","n","a","m","e"," ","i","s"," ","A"," ","L","a","w","s","o","n">>,
    \* Yes, please do that.
    <<"Y","e","s",","," ","p","l","e","a","s","e"," ","d","o"," ","t","h","a","t",".">>,
    \* Maybe (en dash) what's in it?
    <<"M","a","y","b","e"," ","u2013"," ","w","h","a","t","'","s"," ","i","n"," ","i","t","?">>,
    \* Please add these
    <<"P","l","e","a","s","e"," ","a","d","d"," ","t","h","e","s","e">>,
    \* Sound great, send it over
    <<"S","o","u","n","d"," ","g","r","e","a","t",","," ","s","e","n","d"," ","i","t"," ","o","v","e","r">>,
    \* Yes, everything makes sense (en dash) thank you.
    <<"Y","e","s",","," ","e","v","e","r","y","t","h","i","n","g"," ","m","a","k","e","s"," ","s","e","n","s","e"," ","u2013"," ","t","h","a","n","k"," ","y","o","u",".">>,
    \* Yes, I have a question.
    <<"Y","e","s",","," ","I"," ","h","a","v","e"," ","a"," ","q","u","e","s","t","i","o","n",".">>,
    \* I have a question.
    <<"I"," ","h","a","v","e"," ","a"," ","q","u","e","s","t","i","o","n",".">>,
    \* I see, thank you.
    <<"I"," ","s","e","e",","," ","t","h","a","n","k"," ","y","o","u",".">>,
    \* Thank you for the info.
    <<"T","h","a","n","k"," ","y","o","u"," ","f","o","r"," ","t","h","e"," ","i","n","f","o",".">>
>>

\* conversation.conversation_parts.conversation_parts || []
messagesOf(conv) ==
    IF IsSome(Get(conv.conversation_parts).conversation_parts)
    THEN Get(Get(conv.conversation_parts).conversation_parts)
    ELSE <<>>

\* part.author?.type === 'user'
IsUserPart(part) == IsSome(part.author) /\ Get(part.author).type = "user"

\* faulty variant: the author filter is left out
userMessagesAnyAuthor(conv) == messagesOf(conv)

userMessages(conv) == SelectSeq(messagesOf(conv), IsUserPart)

\* (part.body || '').replace(/<[^>]*>/g, '').trim()
cleanBody(part) ==
    LET messageBody == IF IsSome(part.body) THEN Get(part.body) ELSE <<>>
    IN  Trim(StripTags(messageBody))

\* .toLowerCase().replace(apostrophes).replace(quotes).replace(/\s+/g,' ').trim()
normalizeForComparison(s) ==
    Trim(CollapseWhitespace(NormalizeQuotes(NormalizeApostrophes(ToLowerCase(s)))))

normalizedCleanBody(part) == normalizeForComparison(cleanBody(part))

normalizedStockResponse(stockResponse) == normalizeForComparison(stockResponse)

\* the normalized list is the same for every part: computed once
normalizedStockResponses ==
    {normalizedStockResponse(stockResponses[i]) : i \in 1..Len(stockResponses)}

\* faulty variant: the comparison is made without case folding
isStockCaseSensitive(part) ==
    Trim(CollapseWhitespace(NormalizeQuotes(NormalizeApostrophes(cleanBody(part)))))
        \in {stockResponses[i] : i \in 1..Len(stockResponses)}

\* faulty variant: a missing final full stop is overlooked
isStockIgnoringFinalDot(part) ==
    \/ normalizedCleanBody(part) \in normalizedStockResponses
    \/ Append(normalizedCleanBody(part), ".") \in normalizedStockResponses

isStock(part) == normalizedCleanBody(part) \in normalizedStockResponses

IsNotStock(part) == ~isStock(part)

filteredUserMessages(conv) == SelectSeq(userMessages(conv), IsNotStock)

RECURSIVE MapParts(_, _)
MapParts(Op(_), s) ==
    IF s = <<>> THEN <<>> ELSE <<Op(Head(s))>> \o MapParts(Op, Tail(s))

\* the object built for each retained part
transcriptMessage(part) ==
    [ id     |-> part.id,
      body   |-> IF IsSome(part.body) THEN Get(part.body) ELSE <<>>,
      author |-> [type |-> IF IsSome(part.author) THEN Get(part.author).type ELSE ""] ]

RECURSIVE ReverseSeq(_)
ReverseSeq(s) == IF s = <<>> THEN <<>> ELSE ReverseSeq(Tail(s)) \o <<Head(s)>>

\* faulty variant: the retained parts are collected newest first
transcriptMessagesReversed(conv) ==
    ReverseSeq(MapParts(transcriptMessage, filteredUserMessages(conv)))

transcriptMessages(conv) == MapParts(transcriptMessage, filteredUserMessages(conv))

extractTranscriptData(conv) ==
    IF ~IsSome(conv) \/ ~IsSome(Get(conv).conversation_parts) THEN None
    ELSE IF Len(userMessages(Get(conv))) = 0 THEN None
    ELSE IF Len(filteredUserMessages(Get(conv))) = 0 THEN None
    ELSE Some([ conversationId |-> Get(conv).id,
                messages       |-> transcriptMessages(Get(conv)) ])

\* hasUserMessages(conversation)
hasUserMessages(conv) ==
    IF ~IsSome(conv) \/ ~IsSome(Get(conv).conversation_parts) THEN FALSE
    ELSE \E i \in 1..Len(messagesOf(Get(conv))) : IsUserPart(messagesOf(Get(conv))[i])

(***************************************************************************)
(* Inputs of the extractor                                                 *)
(***************************************************************************)

MaxParts == 3

BodyThanks == <<"T","h","a","n","k","s",".">>
BodyThanksMarkup == <<"<","p",">"," "," ","T","H","A","N","K","S","."," ","<","/","p",">">>
BodyThanksNoDot == <<"T","h","a","n","k","s">>
BodyMaybeCurly == <<"M","a","y","b","e"," ","u2013"," ","w","h","a","t","u2019","s","\n"," ","i","n"," ","i","t","?">>
BodySplitTag == <<"T","h","a","n","k","<","b","r",">","s",".">>
BodyTwoParagraphs == <<"<","p",">","N","o",",","<","/","p",">","<","p",">","t","h","a","n","k","s",".","<","/","p",">">>
BodyHello == <<"H","e","l","l","o"," ","<","b",">","t","h","e","r","e">>

UserAuthor == Some([type |-> "user"])
AdminAuthor == Some([type |-> "admin"])

\* what a part of the source may carry: its author (possibly absent) and its
\* body (possibly absent)
PartKinds ==
    { [author |-> UserAuthor, body |-> b] :
        b \in { Some(BodyThanks), Some(BodyThanksMarkup), Some(BodyThanksNoDot),
                Some(BodyMaybeCurly), Some(BodySplitTag), Some(BodyTwoParagraphs),
                Some(BodyHello), None } }
    \cup { [author |-> AdminAuthor, body |-> Some(BodyHello)],
           [author |-> AdminAuthor, body |-> Some(BodyThanks)],
           [author |-> None, body |-> Some(BodyHello)] }

\* a part list: the part at position i has id i
PartList(kinds) ==
    [i \in DOMAIN kinds |-> [id |-> i, author |-> kinds[i].author, body |-> kinds[i].body]]

ConversationWithParts(parts) ==
    Some([id |-> 1, conversation_parts |-> Some([conversation_parts |-> Some(parts)])])

\* a conversation that is null, has no conversation_parts, or has a
\* conversation_parts without a part list
ConversationsWithoutParts ==
    { None,
      Some([id |-> 1, conversation_parts |-> None]),
      Some([id |-> 1, conversation_parts |-> Some([conversation_parts |-> None])]) }

(***************************************************************************)
(* Deduplicator: CaplenaRowManager                                         *)
(***************************************************************************)

\* limit: 50 of the row listing request
RowPageLimit == 50

\* row.columns?.find(col => col.ref === ref)
findColumn(row, ref) ==
    IF \E i \in 1..Len(row.columns) : row.columns[i].ref = ref
    THEN Some(row.columns[CHOOSE i \in 1..Len(row.columns) :
                 /\ row.columns[i].ref = ref
                 /\ \A j \in 1..(i - 1) : row.columns[j].ref # ref])
    ELSE None

\* faulty variant: an absent column or value gives the empty string
valueOrEmpty(column) ==
    IF IsSome(column) /\ IsSome(Get(column).value) THEN Get(column).value ELSE Some(<<>>)

\* column?.value || null: an absent column, a null value and the empty string
\* all give null
valueOrNull(column) ==
    IF IsSome(column) /\ IsSome(Get(column).value) /\ Get(Get(column).value) # <<>>
    THEN Get(column).value
    ELSE None

extractConversationId(row) == valueOrNull(findColumn(row, "conversation_id"))

extractText(row) == valueOrNull(findColumn(row, "text"))

\* faulty variant: the key is built from the conversation id alone
dedupKeyIdOnly(conversationId, text) == conversationId

\* `${conversationId}|${text}`
dedupKey(conversationId, text) == conversationId \o <<"|">> \o text

\* seen: the Map from key to first row, as a set of [key, row]
seenHas(seen, key) == \E e \in seen : e.key = key
seenGet(seen, key) == (CHOOSE e \in seen : e.key = key).row

\* faulty variant: the Map keeps the latest row of a key
identifyStepKeepLatest(row, acc) ==
    LET conversationId == extractConversationId(row)
        text == extractText(row)
    IN  IF ~IsSome(conversationId) \/ ~IsSome(text) THEN acc
        ELSE LET key == dedupKey(Get(conversationId), Get(text))
             IN  IF seenHas(acc.seen, key)
                 THEN [ seen |-> {e \in acc.seen : e.key # key}
                                   \cup {[key |-> key, row |-> row]},
                        duplicates |-> Append(acc.duplicates,
                                          [ original  |-> seenGet(acc.seen, key),
                                            duplicate |-> row,
                                            key       |-> key ]) ]
                 ELSE [ seen |-> acc.seen \cup {[key |-> key, row |-> row]},
                        duplicates |-> acc.duplicates ]

\* the body of rows.forEach(row => ...) in identifyDuplicates
identifyStep(row, acc) ==
    LET conversationId == extractConversationId(row)
        text == extractText(row)
    IN  IF ~IsSome(conversationId) \/ ~IsSome(text) THEN acc
        ELSE LET key == dedupKey(Get(conversationId), Get(text))
             IN  IF seenHas(acc.seen, key)
                 THEN [ seen |-> acc.seen,
                        duplicates |-> Append(acc.duplicates,
                                          [ original  |-> seenGet(acc.seen, key),
                                            duplicate |-> row,
                                            key       |-> key ]) ]
                 ELSE [ seen |-> acc.seen \cup {[key |-> key, row |-> row]},
                        duplicates |-> acc.duplicates ]

RECURSIVE identifyFrom(_, _, _)
identifyFrom(rows, i, acc) ==
    IF i > Len(rows) THEN acc.duplicates
    ELSE identifyFrom(rows, i + 1, identifyStep(rows[i], acc))

identifyDuplicates(rows) == identifyFrom(rows, 1, [seen |-> {}, duplicates |-> <<>>])

EmptyResults == [successful |-> 0, failed |-> 0, errors |-> <<>>]

\* the number of rows in the destination's answer to a listing request when
\* `remaining` rows are not yet listed: at most `limit`, at least one while rows
\* remain
PageSizes(remaining) ==
    IF remaining = 0 THEN {0} ELSE 1..Min(RowPageLimit, remaining)

\* deduplicateProject(projectId): getAllRows is entered
DeduplicateProject ==
    /\ ddPc = "start" /\ ddCaller = "deduplicateProject"
    /\ ddPc' = "list"
    /\ page' = 1 /\ hasMore' = TRUE /\ allRows' = <<>>
    /\ UNCHANGED <<projectRows, deletedIds, ddCaller, duplicates, delI, results,
                   requestLog, ddRet>>

\* getAllRows: while (hasMore) this.client.get(.../rows, {page, limit: 50})
ListRequest ==
    /\ ddPc = "list"
    /\ requestLog' = Append(requestLog, [kind |-> "list", arg |-> page])
    /\ ddPc' = "listWait"
    /\ UNCHANGED <<projectRows, deletedIds, ddCaller, page, hasMore, allRows,
                   duplicates, delI, results, ddRet>>

\* the listing answers with the next rows and a next_url while rows remain:
\* allRows.push(...rows); next_url decides page and hasMore; then the 100ms
\* delay is awaited
ListResponse ==
    /\ ddPc = "listWait"
    /\ \E n \in PageSizes(Len(projectRows) - Len(allRows)) :
         LET to == Len(allRows) + n
             rows == SubSeq(projectRows, Len(allRows) + 1, to)
             nextUrl == to < Len(projectRows)
         IN  /\ allRows' = allRows \o rows
             /\ page' = IF nextUrl THEN page + 1 ELSE page
             /\ hasMore' = nextUrl
    /\ ddPc' = "listDelay"
    /\ UNCHANGED <<projectRows, deletedIds, ddCaller, duplicates, delI, results,
                   requestLog, ddRet>>

\* faulty variant: the failure ends the listing with the rows fetched so far
ListErrorKeepsRows ==
    /\ ddPc = "listWait"
    /\ hasMore' = FALSE
    /\ ddPc' = "listDelay"
    /\ UNCHANGED <<projectRows, deletedIds, ddCaller, page, allRows,
                   duplicates, delI, results, requestLog, ddRet>>

\* the listing request fails: getAllRows and deduplicateProject rethrow
ListError ==
    /\ ddPc = "listWait"
    /\ ddPc' = "thrown"
    /\ UNCHANGED <<projectRows, deletedIds, ddCaller, page, hasMore, allRows,
                   duplicates, delI, results, requestLog, ddRet>>

\* faulty variant: the duplicates among the rows listed so far are deleted
\* before the listing has ended
ListDelayEager ==
    /\ ddPc = "listDelay"
    /\ IF hasMore /\ identifyDuplicates(allRows) = <<>>
       THEN /\ ddPc' = "list"
            /\ UNCHANGED <<duplicates, ddRet, delI, results>>
       ELSE IF Len(allRows) = 0
       THEN /\ ddPc' = "done"
            /\ ddRet' = Some([totalRows |-> 0, duplicates |-> 0, deleted |-> 0])
            /\ UNCHANGED <<duplicates, delI, results>>
       ELSE /\ duplicates' = identifyDuplicates(allRows)
            /\ IF Len(duplicates') = 0
               THEN /\ ddPc' = "done"
                    /\ ddRet' = Some([totalRows |-> Len(allRows), duplicates |-> 0,
                                      deleted |-> 0])
               ELSE /\ ddPc' = "deleteDuplicates"
                    /\ UNCHANGED ddRet
            /\ UNCHANGED <<delI, results>>
    /\ UNCHANGED <<projectRows, deletedIds, ddCaller, page, hasMore, allRows, requestLog>>

\* the delay after a page has elapsed: the next page, or getAllRows returns and
\* deduplicateProject goes on with steps 2 and 3
ListDelay ==
    /\ ddPc = "listDelay"
    /\ IF hasMore
       THEN /\ ddPc' = "list"
            /\ UNCHANGED <<duplicates, ddRet, delI, results>>
       ELSE IF Len(allRows) = 0
       THEN /\ ddPc' = "done"
            /\ ddRet' = Some([totalRows |-> 0, duplicates |-> 0, deleted |-> 0])
            /\ UNCHANGED <<duplicates, delI, results>>
       ELSE /\ duplicates' = identifyDuplicates(allRows)
            /\ IF Len(duplicates') = 0
               THEN /\ ddPc' = "done"
                    /\ ddRet' = Some([totalRows |-> Len(allRows), duplicates |-> 0,
                                      deleted |-> 0])
               ELSE /\ ddPc' = "deleteDuplicates"
                    /\ UNCHANGED ddRet
            /\ UNCHANGED <<delI, results>>
    /\ UNCHANGED <<projectRows, deletedIds, ddCaller, page, hasMore, allRows, requestLog>>

\* what the entry point returns once deleteDuplicates has returned `res`
returnOf(caller, rows, dups, res) ==
    IF caller = "deduplicateProject"
    THEN Some([ totalRows  |-> Len(rows),
                duplicates |-> Len(dups),
                deleted    |-> res.successful,
                failed     |-> res.failed,
                errors     |-> res.errors ])
    ELSE Some(res)

\* deleteDuplicates(projectId, duplicates): results is initialised, an empty
\* list returns at once
DeleteDuplicates ==
    /\ ddPc = "deleteDuplicates"
    /\ results' = EmptyResults
    /\ delI' = 1
    /\ IF Len(duplicates) = 0
       THEN /\ ddPc' = "done"
            /\ ddRet' = returnOf(ddCaller, allRows, duplicates, EmptyResults)
       ELSE /\ ddPc' = "delete"
            /\ UNCHANGED ddRet
    /\ UNCHANGED <<projectRows, deletedIds, ddCaller, page, hasMore, allRows,
                   duplicates, requestLog>>

\* the loop goes to its next iteration, or deleteDuplicates returns
afterIteration(i, res) ==
    IF i + 1 <= Len(duplicates)
    THEN /\ ddPc' = "delete" /\ UNCHANGED ddRet
    ELSE /\ ddPc' = "done" /\ ddRet' = returnOf(ddCaller, allRows, duplicates, res)

\* await this.deleteRow(projectId, duplicate.duplicate.id): the request is sent
DeleteRequest ==
    /\ ddPc = "delete"
    /\ requestLog' = Append(requestLog,
                            [kind |-> "delete", arg |-> duplicates[delI].duplicate.id])
    /\ ddPc' = "deleteWait"
    /\ UNCHANGED <<projectRows, deletedIds, ddCaller, page, hasMore, allRows,
                   duplicates, delI, results, ddRet>>

\* the deletion succeeded: results.successful++, then the 100ms delay is awaited
DeleteOk ==
    /\ ddPc = "deleteWait"
    /\ deletedIds' = deletedIds \cup {duplicates[delI].duplicate.id}
    /\ results' = [results EXCEPT !.successful = @ + 1]
    /\ ddPc' = "deleteDelay"
    /\ UNCHANGED <<projectRows, ddCaller, page, hasMore, allRows, duplicates, delI,
                   requestLog, ddRet>>

\* the delay after a successful deletion has elapsed
DeleteDelay ==
    /\ ddPc = "deleteDelay"
    /\ delI' = delI + 1
    /\ afterIteration(delI, results)
    /\ UNCHANGED <<projectRows, deletedIds, ddCaller, page, hasMore, allRows,
                   duplicates, results, requestLog>>

\* faulty variant: the first failed deletion ends the loop
DeleteErrorBreak ==
    /\ ddPc = "deleteWait"
    /\ results' = [results EXCEPT !.failed = @ + 1,
                                  !.errors = Append(@, [rowId |-> duplicates[delI].duplicate.id])]
    /\ delI' = delI + 1
    /\ ddPc' = "done"
    /\ ddRet' = returnOf(ddCaller, allRows, duplicates, results')
    /\ UNCHANGED <<projectRows, deletedIds, ddCaller, page, hasMore, allRows,
                   duplicates, requestLog>>

\* the deletion raised: results.failed++, the row id is recorded, the loop goes on
DeleteError ==
    /\ ddPc = "deleteWait"
    /\ results' = [results EXCEPT !.failed = @ + 1,
                                  !.errors = Append(@, [rowId |-> duplicates[delI].duplicate.id])]
    /\ delI' = delI + 1
    /\ afterIteration(delI, results')
    /\ UNCHANGED <<projectRows, deletedIds, ddCaller, page, hasMore, allRows,
                   duplicates, requestLog>>

(***************************************************************************)
(* Inputs of the deduplicator                                              *)
(***************************************************************************)

MaxRows == 3
MaxDuplicates == 10

TextColumn(text) == [ref |-> "text", value |-> Some(text)]
ConversationIdColumn(id) == [ref |-> "conversation_id", value |-> Some(id)]

\* the columns of a row: text and conversation_id with values (two of the
\* pairs give the same key), an empty text, no conversation_id column, a
\* conversation_id that is null
RowContents ==
    { <<TextColumn(<<"x">>), ConversationIdColumn(<<"a">>)>>,
      <<TextColumn(<<"y">>), ConversationIdColumn(<<"a">>)>>,
      <<TextColumn(<<"|", "x">>), ConversationIdColumn(<<"a">>)>>,
      <<TextColumn(<<"x">>), ConversationIdColumn(<<"a", "|">>)>>,
      <<TextColumn(<<>>), ConversationIdColumn(<<"a">>)>>,
      <<TextColumn(<<"x">>)>>,
      <<TextColumn(<<"x">>), [ref |-> "conversation_id", value |-> None]>> }

\* the rows of a project: the row at position i has id i
ProjectRows(contents) == [i \in DOMAIN contents |-> [id |-> i, columns |-> contents[i]]]

(***************************************************************************)
(* Batch uploader: CaplenaService                                          *)
(***************************************************************************)

\* const batchSize = 20
batchSize == 20

IsUserMessage(message) == message.author.type = "user"

\* body && body.trim()
IsNonBlankBody(body) == body # <<>> /\ Trim(body) # <<>>

RECURSIVE MapBodies(_)
MapBodies(messages) ==
    IF messages = <<>> THEN <<>> ELSE <<Head(messages).body>> \o MapBodies(Tail(messages))

\* faulty variant: the bodies are joined by a single line break
RECURSIVE JoinSingleLine(_)
JoinSingleLine(bodies) ==
    IF bodies = <<>> THEN <<>>
    ELSE IF Len(bodies) = 1 THEN bodies[1]
    ELSE bodies[1] \o <<"\n">> \o JoinSingleLine(Tail(bodies))

\* bodies.join('\n\n')
RECURSIVE JoinBlankLine(_)
JoinBlankLine(bodies) ==
    IF bodies = <<>> THEN <<>>
    ELSE IF Len(bodies) = 1 THEN bodies[1]
    ELSE bodies[1] \o <<"\n", "\n">> \o JoinBlankLine(Tail(bodies))

\* the text, conversation_id and count columns of the row (the other columns
\* copy metadata fields of the transcript)
transformConversationForCaplena(conv) ==
    IF ~IsSome(conv) \/ ~IsSome(Get(conv).messages) THEN None
    ELSE LET userMsgs == SelectSeq(Get(Get(conv).messages), IsUserMessage)
             userText == JoinBlankLine(SelectSeq(MapBodies(userMsgs), IsNonBlankBody))
         IN  IF Len(userMsgs) = 0 THEN None
             ELSE IF Trim(userText) = <<>> THEN None
             ELSE Some([columns |->
                    << [ref |-> "text", value |-> Some(userText)],
                       [ref |-> "conversation_id", value |-> Some(Get(conv).conversationId)],
                       [ref |-> "user_message_count", value |-> Some(Len(userMsgs))],
                       [ref |-> "total_message_count",
                        value |-> Some(Len(Get(Get(conv).messages)))] >>])

\* conversations.map(transformConversationForCaplena).filter(data => data !== null)
RECURSIVE transformAll(_)
transformAll(convs) ==
    IF convs = <<>> THEN <<>>
    ELSE LET row == transformConversationForCaplena(Head(convs))
         IN  (IF IsSome(row) THEN <<Get(row)>> ELSE <<>>) \o transformAll(Tail(convs))

\* faulty variant: slice(i, i + batchSize + 1)
RECURSIVE batchesFromOverlapping(_, _)
batchesFromOverlapping(rows, i) ==
    IF i >= Len(rows) THEN <<>>
    ELSE <<SubSeq(rows, i + 1, Min(i + batchSize + 1, Len(rows)))>>
            \o batchesFromOverlapping(rows, i + batchSize)

\* for (let i = 0; i < caplenaRows.length; i += batchSize)
\*     batches.push(caplenaRows.slice(i, i + batchSize))
RECURSIVE batchesFrom(_, _)
batchesFrom(rows, i) ==
    IF i >= Len(rows) THEN <<>>
    ELSE <<SubSeq(rows, i + 1, Min(i + batchSize, Len(rows)))>>
            \o batchesFrom(rows, i + batchSize)

\* faulty variant: the empty list of payloads is not rejected
UploadConversationsNoEmptyCheck ==
    /\ upPc = "start"
    /\ caplenaRows' = transformAll(conversations)
    /\ batches' = batchesFrom(caplenaRows', 0)
    /\ uploadResults' = <<>> /\ totalUploaded' = 0 /\ upI' = 1
    /\ IF Len(batches') = 0
       THEN /\ upPc' = "done"
            /\ upRet' = Some([success |-> TRUE, uploadedCount |-> 0, batchCount |-> 0,
                              uploadResults |-> <<>>])
       ELSE /\ upPc' = "post" /\ UNCHANGED upRet
    /\ UNCHANGED <<conversations, postLog, postInFlight, postFailed>>

\* uploadConversations(projectId, conversations) up to its first request
UploadConversations ==
    /\ upPc = "start"
    /\ caplenaRows' = transformAll(conversations)
    /\ IF Len(caplenaRows') = 0
       THEN /\ upPc' = "done"
            /\ upRet' = Some([success |-> FALSE])
            /\ UNCHANGED <<batches, uploadResults, totalUploaded, upI>>
       ELSE /\ batches' = batchesFrom(caplenaRows', 0)
            /\ uploadResults' = <<>> /\ totalUploaded' = 0 /\ upI' = 1
            /\ upPc' = "post"
            /\ UNCHANGED upRet
    /\ UNCHANGED <<conversations, postLog, postInFlight, postFailed>>

\* await this.client.post(.../rows/bulk, batch): the request is sent
PostBatch ==
    /\ upPc = "post"
    /\ postLog' = Append(postLog, [index |-> upI, rows |-> batches[upI]])
    /\ postInFlight' = postInFlight \cup {upI}
    /\ upPc' = "postWait"
    /\ UNCHANGED <<conversations, caplenaRows, batches, upI, uploadResults,
                   totalUploaded, postFailed, upRet>>

\* the destination accepted the batch: the response is recorded; the 100ms
\* delay is awaited unless this was the last batch, after which the call returns
PostOk ==
    /\ upPc = "postWait"
    /\ postInFlight' = postInFlight \ {upI}
    /\ LET data == [status |-> "queued", queued_rows_count |-> Len(batches[upI])]
       IN  /\ uploadResults' = Append(uploadResults, data)
           /\ totalUploaded' = totalUploaded + data.queued_rows_count
    /\ IF upI < Len(batches)
       THEN /\ upPc' = "postDelay"
            /\ UNCHANGED upRet
       ELSE /\ upPc' = "done"
            /\ upRet' = Some([ success       |-> TRUE,
                               uploadedCount |-> totalUploaded',
                               batchCount    |-> Len(batches),
                               uploadResults |-> uploadResults' ])
    /\ UNCHANGED <<conversations, caplenaRows, batches, upI, postLog, postFailed>>

\* the delay between two batches has elapsed: i++
PostDelay ==
    /\ upPc = "postDelay"
    /\ upI' = upI + 1
    /\ upPc' = "post"
    /\ UNCHANGED <<conversations, caplenaRows, batches, uploadResults, totalUploaded,
                   postLog, postInFlight, postFailed, upRet>>

\* faulty variant: the failed batch is logged and the loop goes on with the next batch
PostErrorContinue ==
    /\ upPc = "postWait"
    /\ postInFlight' = postInFlight \ {upI}
    /\ postFailed' = postFailed \cup {upI}
    /\ IF upI < Len(batches)
       THEN /\ upPc' = "postDelay" /\ UNCHANGED upRet
       ELSE /\ upPc' = "done"
            /\ upRet' = Some([ success       |-> TRUE,
                               uploadedCount |-> totalUploaded,
                               batchCount    |-> Len(batches),
                               uploadResults |-> uploadResults ])
    /\ UNCHANGED <<conversations, caplenaRows, batches, upI, uploadResults,
                   totalUploaded, postLog>>

\* faulty variant: the failed batch is submitted again
PostErrorRetry ==
    /\ upPc = "postWait"
    /\ postInFlight' = postInFlight \ {upI}
    /\ postFailed' = postFailed \cup {upI}
    /\ upPc' = IF Len(postLog) < Len(batches) + 1 THEN "post" ELSE "thrown"
    /\ UNCHANGED <<conversations, caplenaRows, batches, upI, uploadResults,
                   totalUploaded, postLog, upRet>>

\* the request failed: the inner catch rethrows, the outer catch rethrows
PostError ==
    /\ upPc = "postWait"
    /\ postInFlight' = postInFlight \ {upI}
    /\ postFailed' = postFailed \cup {upI}
    /\ upPc' = "thrown"
    /\ UNCHANGED <<conversations, caplenaRows, batches, upI, uploadResults,
                   totalUploaded, postLog, upRet>>

(***************************************************************************)
(* Inputs of the uploader                                                  *)
(***************************************************************************)

MaxConversations == 45
PatternPeriod == 2

UserMessage(body) == [body |-> body, author |-> [type |-> "user"]]

\* the messages of a transcript handed to the uploader
MessageLists ==
    { Some(<<UserMessage(<<"h", "i">>)>>),
      Some(<<UserMessage(<<"h", "i">>), UserMessage(<<" ">>),
             [body |-> <<"o", "k">>, author |-> [type |-> "admin"]],
             UserMessage(<<"y", "o">>)>>),
      Some(<<UserMessage(<<" ", "\n">>), UserMessage(<<>>)>>),
      Some(<<UserMessage(<<"h", "i">>), UserMessage(<<" ">>), UserMessage(<<"y", "o">>)>>),
      Some(<<[body |-> <<"h", "i">>, author |-> [type |-> "admin"]]>>),
      None }

\* n transcripts whose messages follow the pattern f of period PatternPeriod
ConversationList(n, f) ==
    [i \in 1..n |-> Some([conversationId |-> <<"c", ToString(i)>>,
                          messages |-> f[i % PatternPeriod]])]

(***************************************************************************)
(* Fetcher: IntercomService                                                *)
(*                                                                         *)
(* The source holds srcFresh + srcOlder conversations, listed by           *)
(* updated_at descending; the conversation at position i has id i. A list  *)
(* request answers with the next summaries after the cursor, per_page of   *)
(* them unless the source puts fewer (srcPageCap) on a page, and with a    *)
(* next cursor exactly when summaries remain after them. The detail of a   *)
(* conversation carries its conversation_parts; whether a list item does   *)
(* is a property of the source (srcListHasParts).                          *)
(***************************************************************************)

\* getConversations(page, 50, startingAfter): per_page
perPage == 50

\* getConversationsSince(sinceTimestamp, limit = 1000)
defaultLimit == 1000

\* the sinceTimestamp argument
sinceTimestamp == 100

\* the summary of the conversation at position i of the listing: the last
\* fresh conversation was updated exactly at the threshold
Summary(i) ==
    [ id |-> i,
      updated_at |-> IF i < srcFresh THEN sinceTimestamp + 1
                     ELSE IF i = srcFresh THEN sinceTimestamp
                     ELSE sinceTimestamp - 1,
      conversation_parts |-> IF srcListHasParts
                             THEN Some([conversation_parts |-> Some(srcKinds[i].parts)])
                             ELSE None ]

\* the pages.next of a source that pages through its conversations once: the
\* cursor names the last conversation of the page, and is absent on the last page
honestNext(total) ==
    [to \in 0..total |-> IF to < total THEN Some([starting_after |-> to]) ELSE None]

\* response.data of GET /conversations with per_page and starting_after
ListPage(cursor) ==
    LET total == srcFresh + srcOlder
        from == IF IsSome(cursor) THEN Get(cursor) + 1 ELSE 1
        to == Min(from + Min(perPage, srcPageCap) - 1, total)
    IN  [ conversations |-> [j \in 1..(to - from + 1) |-> Summary(from + j - 1)],
          pages |-> [next |-> srcNext[to]] ]

\* faulty variant: a summary updated exactly at the threshold is left out
IsSinceStrict(conv) == conv.updated_at > sinceTimestamp

\* parseInt(conversation.updated_at) >= sinceTimestamp
IsSince(conv) == conv.updated_at >= sinceTimestamp

\* getConversationsSince and getConversationsWithTranscriptsSince share their
\* entry, their list request, their delay and their outer catch
sinceCallers == {"getConversationsSince", "getConversationsWithTranscriptsSince"}

\* while (hasMore && conversations.length < limit): the next position of
\* getConversationsSince when the loop condition is evaluated
sinceLoop(more, convs) ==
    IF more /\ Len(convs) < Get(limit) THEN "list" ELSE "done"

\* getConversationsSince(sinceTimestamp) is called: the loop condition holds
\* at entry
GetConversationsSince ==
    /\ fetchPc = "start" /\ fetchCaller \in sinceCallers
    /\ fetched' = <<>> /\ pageNo' = 1 /\ startingAfter' = None /\ fetchHasMore' = TRUE
    /\ fetchPc' = sinceLoop(TRUE, <<>>)
    /\ fetchRet' = IF fetchPc' = "done" THEN Some(<<>>) ELSE None
    /\ UNCHANGED <<srcVars, pageVars, fetchCaller, limit, intercomLog, listFailed>>

\* await this.getConversations(page, 50, startingAfter): the request is sent
SinceListRequest ==
    /\ fetchPc = "list" /\ fetchCaller \in sinceCallers
    /\ intercomLog' = Append(intercomLog, [kind |-> "list", startingAfter |-> startingAfter])
    /\ fetchPc' = "listWait"
    /\ UNCHANGED <<srcVars, pageVars, fetchCaller, limit, pageNo, startingAfter,
                   fetchHasMore, fetched, listFailed, fetchRet>>

\* faulty variant: the cursor is taken from the last summary of the page, and
\* hasMore is never cleared
followCursorOfLastSummary(response) ==
    [ startingAfter |-> Some(response.conversations[Len(response.conversations)].id),
      pageNo |-> pageNo + 1,
      hasMore |-> fetchHasMore ]

\* if (response.pages && response.pages.next) { startingAfter = ...; page++ }
\* else { hasMore = false }
followCursor(response) ==
    IF IsSome(response.pages.next)
    THEN [ startingAfter |-> Some(Get(response.pages.next).starting_after),
           pageNo |-> pageNo + 1,
           hasMore |-> fetchHasMore ]
    ELSE [ startingAfter |-> startingAfter, pageNo |-> pageNo, hasMore |-> FALSE ]

\* the list request is answered: lines 95-121 of the loop body
SinceListOk ==
    /\ fetchPc = "listWait" /\ fetchCaller = "getConversationsSince"
    /\ LET response == ListPage(startingAfter)
           filteredConversations == SelectSeq(response.conversations, IsSince)
       IN  IF Len(response.conversations) = 0
           THEN /\ fetchPc' = "done" /\ fetchRet' = Some(fetched)
                /\ UNCHANGED <<fetched, startingAfter, pageNo, fetchHasMore>>
           ELSE IF Len(filteredConversations) < Len(response.conversations)
           THEN /\ fetched' = fetched \o filteredConversations
                /\ fetchPc' = "done" /\ fetchRet' = Some(fetched')
                /\ UNCHANGED <<startingAfter, pageNo, fetchHasMore>>
           ELSE /\ fetched' = fetched \o filteredConversations
                /\ startingAfter' = followCursor(response).startingAfter
                /\ pageNo' = followCursor(response).pageNo
                /\ fetchHasMore' = followCursor(response).hasMore
                /\ fetchPc' = "listDelay"
                /\ UNCHANGED fetchRet
    /\ UNCHANGED <<srcVars, pageVars, fetchCaller, limit, intercomLog, listFailed>>

\* faulty variant: the failure ends the listing with what was accumulated
SinceListErrorReturnsPartial ==
    /\ fetchPc = "listWait" /\ fetchCaller \in sinceCallers
    /\ listFailed' = TRUE
    /\ fetchPc' = "done" /\ fetchRet' = Some(fetched)
    /\ UNCHANGED <<srcVars, pageVars, fetchCaller, limit, pageNo, startingAfter,
                   fetchHasMore, fetched, intercomLog>>

\* the list request fails: getConversations rethrows (line 72) and the catch of
\* getConversationsSince rethrows (line 135)
SinceListError ==
    /\ fetchPc = "listWait" /\ fetchCaller \in sinceCallers
    /\ listFailed' = TRUE
    /\ fetchPc' = "thrown"
    /\ UNCHANGED <<srcVars, pageVars, fetchCaller, limit, pageNo, startingAfter,
                   fetchHasMore, fetched, intercomLog, fetchRet>>

\* the 100ms delay has elapsed: the loop condition is evaluated again
SinceDelay ==
    /\ fetchPc = "listDelay" /\ fetchCaller \in sinceCallers
    /\ fetchPc' = sinceLoop(fetchHasMore, fetched)
    /\ fetchRet' = IF fetchPc' = "done" THEN Some(fetched) ELSE None
    /\ UNCHANGED <<srcVars, pageVars, fetchCaller, limit, pageNo, startingAfter,
                   fetchHasMore, fetched, intercomLog, listFailed>>

\* GET /conversations/{id}: the detail of the conversation at position i
Detail(i) ==
    [ id |-> i,
      updated_at |-> Summary(i).updated_at,
      conversation_parts |-> Some([conversation_parts |-> Some(srcKinds[i].parts)]),
      contacts |-> srcKinds[i].contacts,
      contactDetails |-> None ]

\* fullConversation.contacts?.contacts?.[0]?.id
contactIdOf(fullConversation) ==
    IF fullConversation.contacts # <<>> THEN Some(fullConversation.contacts[1].id) ELSE None

\* while (hasMore && (limit === null || conversations.length < limit))
allLoop(more, convs) ==
    IF more /\ (limit = None \/ Len(convs) < Get(limit)) THEN "list" ELSE "done"

\* `limit ? a : b`: null and 0 are falsy
limitIsSet == IsSome(limit) /\ Get(limit) # 0

\* faulty variant: every conversation of the page counts as new
newConversationsOfUnfiltered(convs, seen) ==
    [new |-> convs, seen |-> seen \cup {convs[j].id : j \in 1..Len(convs)}]

\* response.conversations.filter(conv => !processedConversationIds.has(conv.id)
\*                                        && processedConversationIds.add(conv.id))
RECURSIVE newConversationsOf(_, _)
newConversationsOf(convs, seen) ==
    IF convs = <<>> THEN [new |-> <<>>, seen |-> seen]
    ELSE IF Head(convs).id \in seen THEN newConversationsOf(Tail(convs), seen)
    ELSE LET rest == newConversationsOf(Tail(convs), seen \cup {Head(convs).id})
         IN  [new |-> <<Head(convs)>> \o rest.new, seen |-> rest.seen]

\* getAllConversationsWithTranscripts(limit) is called without a csvExporter
GetAllConversationsWithTranscripts ==
    /\ fetchPc = "start" /\ fetchCaller = "getAllConversationsWithTranscripts"
    /\ fetched' = <<>> /\ processedIds' = {} /\ startingAfter' = None
    /\ fetchHasMore' = TRUE /\ totalProcessed' = 0 /\ pageNo' = 0
    /\ fetchPc' = allLoop(TRUE, <<>>)
    /\ fetchRet' = IF fetchPc' = "done" THEN Some(<<>>) ELSE None
    /\ UNCHANGED <<srcVars, toProcess, slots, detailFailed, fetchCaller, limit,
                   intercomLog, listFailed>>

\* pageCount++; await this.getConversations(pageCount, 50, startingAfter)
AllListRequest ==
    /\ fetchPc = "list" /\ fetchCaller = "getAllConversationsWithTranscripts"
    /\ pageNo' = pageNo + 1
    /\ intercomLog' = Append(intercomLog, [kind |-> "list", startingAfter |-> startingAfter])
    /\ fetchPc' = "listWait"
    /\ UNCHANGED <<srcVars, pageVars, fetchCaller, limit, startingAfter,
                   fetchHasMore, fetched, listFailed, fetchRet>>

\* faulty variant: a page without a new conversation does not end the loop
AllListOkGoesOnWithoutNew ==
    /\ fetchPc = "listWait" /\ fetchCaller = "getAllConversationsWithTranscripts"
    /\ LET response == ListPage(startingAfter)
           filtered == newConversationsOf(response.conversations, processedIds)
           newConversations == filtered.new
           remainingNeeded == IF limitIsSet THEN Get(limit) - Len(fetched)
                              ELSE Len(newConversations)
           conversationsToProcess ==
               IF limitIsSet
               THEN SubSeq(newConversations, 1, Min(remainingNeeded, Len(newConversations)))
               ELSE newConversations
       IN  IF Len(response.conversations) = 0
           THEN /\ fetchHasMore' = FALSE
                /\ fetchPc' = "done" /\ fetchRet' = Some(fetched)
                /\ UNCHANGED <<processedIds, toProcess, slots, intercomLog>>
           ELSE /\ processedIds' = filtered.seen
                /\ toProcess' = conversationsToProcess
                /\ slots' = [j \in 1..Len(conversationsToProcess) |->
                                [state |-> "detailWait", value |-> None]]
                /\ intercomLog' = intercomLog \o
                      [j \in 1..Len(conversationsToProcess) |->
                          [kind |-> "detail", id |-> conversationsToProcess[j].id]]
                /\ fetchPc' = "details"
                /\ UNCHANGED <<fetchHasMore, fetchRet>>
    /\ UNCHANGED <<srcVars, detailFailed, totalProcessed, fetchCaller, limit, pageNo,
                   startingAfter, fetched, listFailed>>

\* the list request is answered (lines 203-234): the detail requests of the
\* page's new conversations are all sent before any answer is awaited
AllListOk ==
    /\ fetchPc = "listWait" /\ fetchCaller = "getAllConversationsWithTranscripts"
    /\ LET response == ListPage(startingAfter)
           filtered == newConversationsOf(response.conversations, processedIds)
           newConversations == filtered.new
           remainingNeeded == IF limitIsSet THEN Get(limit) - Len(fetched)
                              ELSE Len(newConversations)
           conversationsToProcess ==
               IF limitIsSet
               THEN SubSeq(newConversations, 1, Min(remainingNeeded, Len(newConversations)))
               ELSE newConversations
       IN  IF Len(response.conversations) = 0
           THEN /\ fetchHasMore' = FALSE
                /\ fetchPc' = "done" /\ fetchRet' = Some(fetched)
                /\ UNCHANGED <<processedIds, toProcess, slots, intercomLog>>
           ELSE IF Len(newConversations) = 0
           THEN /\ fetchHasMore' = FALSE
                /\ processedIds' = filtered.seen
                /\ fetchPc' = "done" /\ fetchRet' = Some(fetched)
                /\ UNCHANGED <<toProcess, slots, intercomLog>>
           ELSE /\ processedIds' = filtered.seen
                /\ toProcess' = conversationsToProcess
                /\ slots' = [j \in 1..Len(conversationsToProcess) |->
                                [state |-> "detailWait", value |-> None]]
                /\ intercomLog' = intercomLog \o
                      [j \in 1..Len(conversationsToProcess) |->
                          [kind |-> "detail", id |-> conversationsToProcess[j].id]]
                /\ fetchPc' = "details"
                /\ UNCHANGED <<fetchHasMore, fetchRet>>
    /\ UNCHANGED <<srcVars, detailFailed, totalProcessed, fetchCaller, limit, pageNo,
                   startingAfter, fetched, listFailed>>

\* the list request fails: the catch inside the loop clears hasMore, the loop
\* ends and the accumulated conversations are returned (lines 313-327)
AllListError ==
    /\ fetchPc = "listWait" /\ fetchCaller = "getAllConversationsWithTranscripts"
    /\ listFailed' = TRUE
    /\ fetchHasMore' = FALSE
    /\ fetchPc' = "done" /\ fetchRet' = Some(fetched)
    /\ UNCHANGED <<srcVars, pageVars, fetchCaller, limit, pageNo, startingAfter,
                   fetched, intercomLog>>

\* the detail request of conversationsToProcess[j] is answered: the contact
\* request follows when the detail names a contact, else the promise resolves
\* with the detail
DetailOk ==
    /\ fetchPc = "details" /\ fetchCaller = "getAllConversationsWithTranscripts"
    /\ \E j \in 1..Len(slots) :
          /\ slots[j].state = "detailWait"
          /\ LET fullConversation == Detail(toProcess[j].id)
             IN  IF IsSome(contactIdOf(fullConversation))
                 THEN /\ slots' = [slots EXCEPT ![j] = [state |-> "contactWait",
                                                       value |-> Some(fullConversation)]]
                      /\ intercomLog' = Append(intercomLog,
                            [kind |-> "contact", id |-> Get(contactIdOf(fullConversation))])
                 ELSE /\ slots' = [slots EXCEPT ![j] = [state |-> "resolved",
                                                       value |-> Some(fullConversation)]]
                      /\ UNCHANGED intercomLog
    /\ UNCHANGED <<srcVars, processedIds, toProcess, detailFailed, totalProcessed,
                   fetchCaller, fetchPc, limit, pageNo, startingAfter, fetchHasMore,
                   fetched, listFailed, fetchRet>>

\* faulty variant: the failure of one detail request rejects the group, which
\* the catch of the loop takes as the end of the listing
DetailErrorRejectsPage ==
    /\ fetchPc = "details" /\ fetchCaller = "getAllConversationsWithTranscripts"
    /\ \E j \in 1..Len(slots) :
          /\ slots[j].state = "detailWait"
          /\ detailFailed' = detailFailed \cup {toProcess[j].id}
    /\ fetchHasMore' = FALSE
    /\ fetchPc' = "done" /\ fetchRet' = Some(fetched)
    /\ UNCHANGED <<srcVars, processedIds, toProcess, slots, totalProcessed, fetchCaller,
                   limit, pageNo, startingAfter, fetched, intercomLog, listFailed>>

\* the detail request of conversationsToProcess[j] fails: the promise resolves
\* with the summary (return conversation)
DetailError ==
    /\ fetchPc = "details" /\ fetchCaller = "getAllConversationsWithTranscripts"
    /\ \E j \in 1..Len(slots) :
          /\ slots[j].state = "detailWait"
          /\ slots' = [slots EXCEPT ![j] = [state |-> "resolved",
                                            value |-> Some(toProcess[j])]]
          /\ detailFailed' = detailFailed \cup {toProcess[j].id}
    /\ UNCHANGED <<srcVars, processedIds, toProcess, totalProcessed, fetchCaller, fetchPc,
                   limit, pageNo, startingAfter, fetchHasMore, fetched, intercomLog,
                   listFailed, fetchRet>>

\* the contact request is answered: fullConversation.contactDetails = contact
ContactOk ==
    /\ fetchPc = "details" /\ fetchCaller = "getAllConversationsWithTranscripts"
    /\ \E j \in 1..Len(slots) :
          /\ slots[j].state = "contactWait"
          /\ LET fullConversation == Get(slots[j].value)
                 contact == [id |-> Get(contactIdOf(fullConversation))]
             IN  slots' = [slots EXCEPT ![j] =
                    [state |-> "resolved",
                     value |-> Some([fullConversation EXCEPT
                                        !.contactDetails = Some(contact)])]]
    /\ UNCHANGED <<srcVars, processedIds, toProcess, detailFailed, totalProcessed,
                   fetchCaller, fetchPc, limit, pageNo, startingAfter, fetchHasMore,
                   fetched, intercomLog, listFailed, fetchRet>>

\* the contact request fails: a warning, the detail is returned without
\* contactDetails
ContactError ==
    /\ fetchPc = "details" /\ fetchCaller = "getAllConversationsWithTranscripts"
    /\ \E j \in 1..Len(slots) :
          /\ slots[j].state = "contactWait"
          /\ slots' = [slots EXCEPT ![j].state = "resolved"]
    /\ UNCHANGED <<srcVars, processedIds, toProcess, detailFailed, totalProcessed,
                   fetchCaller, fetchPc, limit, pageNo, startingAfter, fetchHasMore,
                   fetched, intercomLog, listFailed, fetchRet>>

hasUserMessagesOf(conv) == hasUserMessages(Some(conv))

\* faulty variant: the loop goes on as soon as one promise of the page has
\* resolved, with the conversations resolved so far
AllPageDoneAtFirstAnswer ==
    /\ fetchPc = "details" /\ fetchCaller = "getAllConversationsWithTranscripts"
    /\ \E j \in 1..Len(slots) : slots[j].state = "resolved"
    /\ LET response == ListPage(startingAfter)
           resolved == SelectSeq(slots, LAMBDA slot : slot.state = "resolved")
           fullConversations == [j \in 1..Len(resolved) |-> Get(resolved[j].value)]
           conversationsWithUserMessages == SelectSeq(fullConversations, hasUserMessagesOf)
       IN  /\ totalProcessed' = totalProcessed + Len(fullConversations)
           /\ fetched' = fetched \o conversationsWithUserMessages
           /\ IF limitIsSet /\ Len(fetched') >= Get(limit)
              THEN /\ fetchPc' = "done" /\ fetchRet' = Some(fetched')
                   /\ UNCHANGED <<startingAfter, fetchHasMore>>
              ELSE /\ IF IsSome(response.pages.next)
                         /\ Get(response.pages.next).starting_after # 0
                      THEN /\ startingAfter' = Some(Get(response.pages.next).starting_after)
                           /\ UNCHANGED fetchHasMore
                      ELSE /\ fetchHasMore' = FALSE
                           /\ UNCHANGED startingAfter
                   /\ fetchPc' = "listDelay"
                   /\ UNCHANGED fetchRet
    /\ UNCHANGED <<srcVars, processedIds, toProcess, slots, detailFailed, fetchCaller,
                   limit, pageNo, intercomLog, listFailed>>

\* await Promise.all(conversationPromises) returns (lines 262-308): every
\* promise of the page has resolved
AllPageDone ==
    /\ fetchPc = "details" /\ fetchCaller = "getAllConversationsWithTranscripts"
    /\ \A j \in 1..Len(slots) : slots[j].state = "resolved"
    /\ LET response == ListPage(startingAfter)
           fullConversations == [j \in 1..Len(slots) |-> Get(slots[j].value)]
           conversationsWithUserMessages == SelectSeq(fullConversations, hasUserMessagesOf)
       IN  /\ totalProcessed' = totalProcessed + Len(fullConversations)
           /\ fetched' = fetched \o conversationsWithUserMessages
           /\ IF limitIsSet /\ Len(fetched') >= Get(limit)
              THEN /\ fetchPc' = "done" /\ fetchRet' = Some(fetched')
                   /\ UNCHANGED <<startingAfter, fetchHasMore>>
              ELSE /\ IF IsSome(response.pages.next)
                         /\ Get(response.pages.next).starting_after # 0
                      THEN /\ startingAfter' = Some(Get(response.pages.next).starting_after)
                           /\ UNCHANGED fetchHasMore
                      ELSE /\ fetchHasMore' = FALSE
                           /\ UNCHANGED startingAfter
                   /\ fetchPc' = "listDelay"
                   /\ UNCHANGED fetchRet
    /\ UNCHANGED <<srcVars, processedIds, toProcess, slots, detailFailed, fetchCaller,
                   limit, pageNo, intercomLog, listFailed>>

\* the 100ms delay has elapsed: the loop condition is evaluated again
AllDelay ==
    /\ fetchPc = "listDelay" /\ fetchCaller = "getAllConversationsWithTranscripts"
    /\ fetchPc' = allLoop(fetchHasMore, fetched)
    /\ fetchRet' = IF fetchPc' = "done" THEN Some(fetched) ELSE None
    /\ UNCHANGED <<srcVars, pageVars, fetchCaller, limit, pageNo, startingAfter,
                   fetchHasMore, fetched, intercomLog, listFailed>>

\* getConversationsWithTranscriptsSince: the list request is answered (lines
\* 349-365, 395): the conversations at or after the threshold await their
\* detail request, one after the other
WtsListOk ==
    /\ fetchPc = "listWait" /\ fetchCaller = "getConversationsWithTranscriptsSince"
    /\ LET response == ListPage(startingAfter)
           filteredConversations == SelectSeq(response.conversations, IsSince)
       IN  IF Len(response.conversations) = 0
           THEN /\ fetchPc' = "done" /\ fetchRet' = Some(fetched)
                /\ UNCHANGED <<toProcess, slots>>
           ELSE /\ toProcess' = filteredConversations
                /\ slots' = [j \in 1..Len(filteredConversations) |->
                                [state |-> "queued", value |-> None]]
                /\ fetchPc' = "details"
                /\ UNCHANGED fetchRet
    /\ UNCHANGED <<srcVars, processedIds, detailFailed, totalProcessed, fetchCaller, limit,
                   pageNo, startingAfter, fetchHasMore, fetched, intercomLog, listFailed>>

\* for (const conversation of filteredConversations)
\*     await this.getConversation(conversation.id): the request is sent
WtsDetailRequest ==
    /\ fetchPc = "details" /\ fetchCaller = "getConversationsWithTranscriptsSince"
    /\ \E j \in 1..Len(slots) :
          /\ slots[j].state = "queued"
          /\ \A h \in 1..(j - 1) : slots[h].state \in {"resolved", "skipped"}
          /\ slots' = [slots EXCEPT ![j].state = "detailWait"]
          /\ intercomLog' = Append(intercomLog, [kind |-> "detail", id |-> toProcess[j].id])
    /\ UNCHANGED <<srcVars, processedIds, toProcess, detailFailed, totalProcessed,
                   fetchCaller, fetchPc, limit, pageNo, startingAfter, fetchHasMore,
                   fetched, listFailed, fetchRet>>

\* the detail request is answered: the contact request follows when the detail
\* names a contact, else conversations.push(fullConversation)
WtsDetailOk ==
    /\ fetchPc = "details" /\ fetchCaller = "getConversationsWithTranscriptsSince"
    /\ \E j \in 1..Len(slots) :
          /\ slots[j].state = "detailWait"
          /\ LET fullConversation == Detail(toProcess[j].id)
             IN  IF IsSome(contactIdOf(fullConversation))
                 THEN /\ slots' = [slots EXCEPT ![j] = [state |-> "contactWait",
                                                       value |-> Some(fullConversation)]]
                      /\ intercomLog' = Append(intercomLog,
                            [kind |-> "contact", id |-> Get(contactIdOf(fullConversation))])
                      /\ UNCHANGED fetched
                 ELSE /\ slots' = [slots EXCEPT ![j] = [state |-> "resolved",
                                                       value |-> Some(fullConversation)]]
                      /\ fetched' = Append(fetched, fullConversation)
                      /\ UNCHANGED intercomLog
    /\ UNCHANGED <<srcVars, processedIds, toProcess, detailFailed, totalProcessed,
                   fetchCaller, fetchPc, limit, pageNo, startingAfter, fetchHasMore,
                   listFailed, fetchRet>>

\* the detail request fails: a warning, nothing is pushed for the conversation
WtsDetailError ==
    /\ fetchPc = "details" /\ fetchCaller = "getConversationsWithTranscriptsSince"
    /\ \E j \in 1..Len(slots) :
          /\ slots[j].state = "detailWait"
          /\ slots' = [slots EXCEPT ![j].state = "skipped"]
          /\ detailFailed' = detailFailed \cup {toProcess[j].id}
    /\ UNCHANGED <<srcVars, processedIds, toProcess, totalProcessed, fetchCaller, fetchPc,
                   limit, pageNo, startingAfter, fetchHasMore, fetched, intercomLog,
                   listFailed, fetchRet>>

\* the contact request is answered or fails: with or without contactDetails,
\* conversations.push(fullConversation)
WtsContactDone ==
    /\ fetchPc = "details" /\ fetchCaller = "getConversationsWithTranscriptsSince"
    /\ \E j \in 1..Len(slots) : \E answered \in BOOLEAN :
          /\ slots[j].state = "contactWait"
          /\ LET detail == Get(slots[j].value)
                 fullConversation ==
                     IF answered
                     THEN [detail EXCEPT !.contactDetails =
                                            Some([id |-> Get(contactIdOf(detail))])]
                     ELSE detail
             IN  /\ slots' = [slots EXCEPT ![j] = [state |-> "resolved",
                                                   value |-> Some(fullConversation)]]
                 /\ fetched' = Append(fetched, fullConversation)
    /\ UNCHANGED <<srcVars, processedIds, toProcess, detailFailed, totalProcessed,
                   fetchCaller, fetchPc, limit, pageNo, startingAfter, fetchHasMore,
                   intercomLog, listFailed, fetchRet>>

\* the for loop over the page has ended: break after a page that held an older
\* conversation (line 391), else the cursor is followed (lines 423-428)
WtsPageDone ==
    /\ fetchPc = "details" /\ fetchCaller = "getConversationsWithTranscriptsSince"
    /\ \A j \in 1..Len(slots) : slots[j].state \in {"resolved", "skipped"}
    /\ LET response == ListPage(startingAfter)
       IN  IF Len(toProcess) < Len(response.conversations)
           THEN /\ fetchPc' = "done" /\ fetchRet' = Some(fetched)
                /\ UNCHANGED <<startingAfter, pageNo, fetchHasMore>>
           ELSE /\ startingAfter' = followCursor(response).startingAfter
                /\ pageNo' = followCursor(response).pageNo
                /\ fetchHasMore' = followCursor(response).hasMore
                /\ fetchPc' = "listDelay"
                /\ UNCHANGED fetchRet
    /\ UNCHANGED <<srcVars, pageVars, fetchCaller, limit, fetched, intercomLog, listFailed>>

(***************************************************************************)
(* Inputs of the fetcher                                                   *)
(***************************************************************************)

MaxSummaries == 1001
MaxOlder == 1

\* bounds of the source of a full extraction
MaxConversationsAll == 3
MaxPageCap == 2
MaxLimit == 2
\* the conversations of a source whose cursors are arbitrary
MaxCursorIds == 2

UserPart == [id |-> 1, author |-> UserAuthor, body |-> Some(BodyHello)]
AdminPart == [id |-> 1, author |-> AdminAuthor, body |-> Some(BodyHello)]

\* what the detail of a conversation carries: its parts and its contacts
DetailKinds ==
    { [parts |-> <<UserPart>>, contacts |-> <<>>],
      [parts |-> <<AdminPart, UserPart>>, contacts |-> <<[id |-> "k"]>>],
      [parts |-> <<AdminPart>>, contacts |-> <<>>] }

(***************************************************************************)
(* Daily sync: DailySync.syncNewConversations                              *)
(***************************************************************************)

\* conversations.map(extractTranscriptData).filter(transcript => transcript !== null);
\* a transcript is handed to the uploader with its messages present
RECURSIVE transcriptsOf(_)
transcriptsOf(convs) ==
    IF convs = <<>> THEN <<>>
    ELSE LET t == extractTranscriptData(Some(Head(convs)))
         IN  (IF IsSome(t)
              THEN <<Some([conversationId |-> Get(t).conversationId,
                           messages |-> Some(Get(t).messages)])>>
              ELSE <<>>) \o transcriptsOf(Tail(convs))

\* syncNewConversations() is called: getConversationsSince(startTime) with the
\* threshold 24 hours back
SyncNewConversations ==
    /\ syncPc = "start"
    /\ syncPc' = "fetch"
    /\ fetchCaller' = "getConversationsSince" /\ fetchPc' = "start"
    /\ limit' = Some(defaultLimit)
    /\ UNCHANGED <<srcVars, pageVars, pageNo, startingAfter, fetchHasMore, fetched,
                   intercomLog, listFailed, fetchRet>>
    /\ UNCHANGED <<transcripts, project, syncRet, extractVars, dedupVars, uploadVars>>

\* getConversationsSince has returned (dailySync.js lines 30-64)
SyncFetched ==
    /\ syncPc = "fetch" /\ fetchPc = "done"
    /\ LET convs == Get(fetchRet)
       IN  IF Len(convs) = 0
           THEN /\ syncPc' = "done"
                /\ syncRet' = Some([success |-> TRUE, message |-> "No new conversations found",
                                    conversationCount |-> 0])
                /\ UNCHANGED transcripts
           ELSE /\ transcripts' = transcriptsOf(convs)
                /\ IF Len(transcripts') = 0
                   THEN /\ syncPc' = "done"
                        /\ syncRet' = Some([success |-> TRUE,
                                 message |-> "No valid transcripts with user messages found",
                                 conversationCount |-> 0])
                   ELSE /\ syncPc' = "project"
                        /\ UNCHANGED syncRet
    /\ UNCHANGED <<project, extractVars, dedupVars, uploadVars, fetchVars>>

\* getConversationsSince has thrown: the catch rethrows (lines 96-99)
SyncFetchThrown ==
    /\ syncPc = "fetch" /\ fetchPc = "thrown"
    /\ syncPc' = "thrown"
    /\ UNCHANGED <<transcripts, project, syncRet, extractVars, dedupVars, uploadVars,
                   fetchVars>>

\* ensureProjectExists(projectName, ...) returns a project, returns nothing or
\* throws (lines 66-79); with a project, uploadConversations is called
EnsureProjectExists ==
    /\ syncPc = "project"
    /\ \E outcome \in {"project", "nothing", "throws"} :
          IF outcome = "project"
          THEN /\ project' = Some([id |-> "p"])
               /\ syncPc' = "upload"
               /\ conversations' = transcripts
               /\ upPc' = "start"
               /\ UNCHANGED syncRet
          ELSE /\ syncPc' = IF outcome = "nothing" THEN "done" ELSE "thrown"
               /\ syncRet' = IF outcome = "nothing"
                             THEN Some([success |-> FALSE,
                                        error |-> "Failed to create or find project"])
                             ELSE None
               /\ UNCHANGED <<project, conversations, upPc>>
    /\ UNCHANGED <<caplenaRows, batches, upI, uploadResults, totalUploaded, postLog,
                   postInFlight, postFailed, upRet>>
    /\ UNCHANGED <<transcripts, extractVars, dedupVars, fetchVars>>

\* uploadConversations has returned (lines 81-94)
SyncUploaded ==
    /\ syncPc = "upload" /\ upPc = "done"
    /\ syncPc' = "done"
    /\ syncRet' = Some([success |-> TRUE,
                        message |-> "Successfully synced",
                        conversationCount |-> Len(transcripts),
                        uploadResult |-> Get(upRet)])
    /\ UNCHANGED <<transcripts, project, extractVars, dedupVars, uploadVars, fetchVars>>

\* uploadConversations has thrown: the catch rethrows (lines 96-99)
SyncUploadThrown ==
    /\ syncPc = "upload" /\ upPc = "thrown"
    /\ syncPc' = "thrown"
    /\ UNCHANGED <<transcripts, project, syncRet, extractVars, dedupVars, uploadVars,
                   fetchVars>>

(***************************************************************************)
(* Inputs of the daily sync                                                *)
(***************************************************************************)

MaxSyncConversations == 21

\* the details of the source: those of a full extraction, a conversation whose
\* only end-user message is a stock response and one whose only end-user
\* message is blank
SyncKinds ==
    DetailKinds \cup
        { [parts |-> <<[id |-> 1, author |-> UserAuthor, body |-> Some(BodyThanks)]>>,
           contacts |-> <<>>],
          [parts |-> <<[id |-> 1, author |-> UserAuthor, body |-> Some(<<" ">>)]>>,
           contacts |-> <<>>] }

(***************************************************************************)
(* CSV exporter: CSVExporter                                               *)
(***************************************************************************)

DoubleQuote == "\""
Comma == ","
LineFeed == "\n"
CarriageReturn == "\r"

\* the column names of the file; a name holds no comma, no quote and no line
\* break and is kept as one symbol
headers ==
    << "conversation_id", "created_at", "updated_at", "subject", "message_id",
       "message_type", "message_body", "author_type", "author_id", "author_name",
       "message_created_at" >>

\* parts.join(sep)
RECURSIVE joinWith(_, _)
joinWith(parts, sep) ==
    IF parts = <<>> THEN <<>>
    ELSE IF Len(parts) = 1 THEN parts[1]
    ELSE parts[1] \o sep \o joinWith(Tail(parts), sep)

\* headers.join(',')
headerLine == joinWith([i \in 1..Len(headers) |-> <<headers[i]>>], <<Comma>>)

\* faulty variant: line breaks are kept
RECURSIVE escapeCSVKeepsLineBreaks(_)
escapeCSVKeepsLineBreaks(text) ==
    IF text = <<>> THEN <<>>
    ELSE (IF Head(text) = DoubleQuote THEN <<DoubleQuote, DoubleQuote>> ELSE <<Head(text)>>)
             \o escapeCSVKeepsLineBreaks(Tail(text))

\* text.replace(/"/g, '""').replace(/\n/g, ' ').replace(/\r/g, ' ')
RECURSIVE escapeCSV(_)
escapeCSV(text) ==
    IF text = <<>> THEN <<>>
    ELSE (IF Head(text) = DoubleQuote THEN <<DoubleQuote, DoubleQuote>>
          ELSE IF Head(text) \in {LineFeed, CarriageReturn} THEN <<" ">>
          ELSE <<Head(text)>>) \o escapeCSV(Tail(text))

\* `"${value}"`
quoted(value) == <<DoubleQuote>> \o value \o <<DoubleQuote>>

\* the row of one message: row.join(',')
csvRow(t, message) ==
    joinWith(<< quoted(t.conversationId),
                quoted(t.createdAt),
                quoted(t.updatedAt),
                quoted(escapeCSV(t.subject)),
                quoted(message.id),
                quoted(message.type),
                quoted(escapeCSV(message.body)),
                quoted(message.author.type),
                quoted(message.author.id),
                quoted(escapeCSV(message.author.name)),
                quoted(message.createdAt) >>, <<Comma>>)

\* the rows of one transcript; none for a transcript without messages
csvRows(t) ==
    IF ~IsSome(t.messages) THEN <<>>
    ELSE [k \in 1..Len(Get(t.messages)) |-> csvRow(t, Get(t.messages)[k])]

\* convertToCSV(transcripts)
convertToCSV(ts) ==
    IF Len(ts) = 0 THEN <<>>
    ELSE headerLine \o <<LineFeed>>
           \o joinWith([i \in 1..Len(ts) |->
                          joinWith([k \in 1..Len(csvRows(ts[i])) |->
                                      csvRows(ts[i])[k] \o <<LineFeed>>], <<>>)], <<>>)

\* exportToCSV(transcripts): the content is written unless it is blank
ExportToCSV ==
    /\ csvPc = "start" /\ csvMode = "exportToCSV"
    /\ csvContent' = Some(convertToCSV(csvTranscripts))
    /\ csvFile' = IF Trim(Get(csvContent')) = <<>> THEN csvFile ELSE csvContent'
    /\ csvPc' = "written"
    /\ UNCHANGED <<csvMode, csvTranscripts, csvI, headersWritten, initialized, fileHandle,
                   csvData, csvCalls>>

\* initializeCSV(): the file is opened for appending; the header line is
\* written unless the file already has content
InitializeCSV ==
    /\ csvPc = "start" /\ csvMode = "appendTranscript"
    /\ ~initialized
    /\ LET fileExists == IsSome(csvFile) /\ Len(Get(csvFile)) > 0
           content == IF IsSome(csvFile) THEN Get(csvFile) ELSE <<>>
       IN  csvFile' = Some(content \o (IF headersWritten \/ fileExists THEN <<>>
                                        ELSE headerLine \o <<LineFeed>>))
    /\ headersWritten' = TRUE
    /\ initialized' = TRUE
    /\ fileHandle' = TRUE
    /\ csvI' = 1
    /\ csvPc' = "append"
    /\ UNCHANGED <<csvMode, csvTranscripts, csvContent, csvData, csvCalls>>

\* appendTranscript(transcript): rows.join('\n') + '\n' is appended when the
\* transcript has messages
AppendTranscript ==
    /\ csvPc = "append" /\ csvI <= Len(csvTranscripts)
    /\ fileHandle
    /\ LET rows == csvRows(csvTranscripts[csvI])
       IN  csvFile' = IF Len(rows) > 0
                      THEN Some(Get(csvFile) \o joinWith(rows, <<LineFeed>>) \o <<LineFeed>>)
                      ELSE csvFile
    /\ csvI' = csvI + 1
    /\ UNCHANGED <<csvMode, csvTranscripts, csvPc, csvContent, headersWritten, initialized,
                   fileHandle, csvData, csvCalls>>

\* closeCSV()
CloseCSV ==
    /\ csvPc = "append" /\ csvI > Len(csvTranscripts)
    /\ fileHandle
    /\ fileHandle' = FALSE
    /\ initialized' = FALSE
    /\ csvPc' = "written"
    /\ UNCHANGED <<csvMode, csvTranscripts, csvI, csvFile, csvContent, headersWritten,
                   csvData, csvCalls>>

\* the calls one caller may make on an exporter
MaxCalls == 4

\* faulty variant: the size of the file is not looked at
sizeIgnored(file) == FALSE

\* fs.stat(this.outputPath) succeeds and stats.size > 0
hasContent(file) == IsSome(file) /\ Len(Get(file)) > 0

\* the call has returned or thrown
called(name, outcome) == Append(csvCalls, [call |-> name, outcome |-> outcome])

\* initializeCSV() called at any time: nothing happens on an initialized
\* exporter; else headersWritten is set when the file has content, the file is
\* opened for appending and the header line is written unless headersWritten
InitializeCSVCall ==
    /\ csvMode = "calls" /\ Len(csvCalls) < MaxCalls
    /\ IF initialized
       THEN UNCHANGED <<csvFile, headersWritten, initialized, fileHandle>>
       ELSE LET content == IF IsSome(csvFile) THEN Get(csvFile) ELSE <<>>
                written == headersWritten \/ hasContent(csvFile)
            IN  /\ csvFile' = Some(content \o (IF written THEN <<>>
                                                ELSE headerLine \o <<LineFeed>>))
                /\ headersWritten' = TRUE
                /\ initialized' = TRUE
                /\ fileHandle' = TRUE
    /\ csvCalls' = called("initializeCSV", "returned")
    /\ UNCHANGED <<csvMode, csvTranscripts, csvPc, csvI, csvContent, csvData>>

\* appendTranscript(transcript) called at any time: it throws without a file
\* handle, else rows.join('\n') + '\n' is appended when the transcript has
\* messages
AppendTranscriptCall ==
    /\ csvMode = "calls" /\ Len(csvCalls) < MaxCalls
    /\ \E i \in 1..Len(csvTranscripts) :
          IF ~fileHandle
          THEN /\ csvCalls' = called("appendTranscript", "thrown")
               /\ UNCHANGED csvFile
          ELSE LET rows == csvRows(csvTranscripts[i])
               IN  /\ csvFile' = IF Len(rows) > 0
                                  THEN Some(Get(csvFile) \o joinWith(rows, <<LineFeed>>)
                                               \o <<LineFeed>>)
                                  ELSE csvFile
                   /\ csvCalls' = called("appendTranscript", "returned")
    /\ UNCHANGED <<csvMode, csvTranscripts, csvPc, csvI, csvContent, headersWritten,
                   initialized, fileHandle, csvData>>

\* closeCSV() called at any time: an open file handle is closed and
\* initialized is reset
CloseCSVCall ==
    /\ csvMode = "calls" /\ Len(csvCalls) < MaxCalls
    /\ IF fileHandle
       THEN fileHandle' = FALSE /\ initialized' = FALSE
       ELSE UNCHANGED <<fileHandle, initialized>>
    /\ csvCalls' = called("closeCSV", "returned")
    /\ UNCHANGED <<csvMode, csvTranscripts, csvPc, csvI, csvFile, csvContent,
                   headersWritten, csvData>>

\* the position of the first separator of s at or after from, Len(s) + 1
\* without one
nextSeparator(s, separator, from) ==
    LET at == {i \in from..Len(s) : s[i] = separator}
    IN  IF at = {} THEN Len(s) + 1 ELSE CHOOSE i \in at : \A j \in at : i <= j

\* s.split(separator): the pieces of s from position from on
RECURSIVE splitFrom(_, _, _)
splitFrom(s, separator, from) ==
    LET to == nextSeparator(s, separator, from)
    IN  <<SubSeq(s, from, to - 1)>>
           \o (IF to > Len(s) THEN <<>> ELSE splitFrom(s, separator, to + 1))

split(s, separator) == splitFrom(s, separator, 1)

\* value.replace(/"/g, '')
removeQuotes(value) == SelectSeq(value, LAMBDA c : c # DoubleQuote)

\* parseCSVLine(line): the loop from position i on
RECURSIVE parseCSVLineFrom(_, _, _, _, _)
parseCSVLineFrom(line, i, values, current, inQuotes) ==
    IF i > Len(line) THEN Append(values, current)
    ELSE IF line[i] = DoubleQuote
    THEN parseCSVLineFrom(line, i + 1, values, current, ~inQuotes)
    ELSE IF line[i] = Comma /\ ~inQuotes
    THEN parseCSVLineFrom(line, i + 1, Append(values, current), <<>>, inQuotes)
    ELSE parseCSVLineFrom(line, i + 1, values, Append(current, line[i]), inQuotes)

parseCSVLine(line) == parseCSVLineFrom(line, 1, <<>>, <<>>, FALSE)

\* the data objects of the lines from position i on: a line whose number of
\* values differs from the number of headers is left out
RECURSIVE parseRowsFrom(_, _, _)
parseRowsFrom(lines, i, hs) ==
    IF i > Len(lines) THEN <<>>
    ELSE LET values == parseCSVLine(lines[i])
             last(h) == CHOOSE j \in 1..Len(hs) :
                           hs[j] = h /\ \A l \in (j + 1)..Len(hs) : hs[l] # h
         IN  (IF Len(values) = Len(hs)
              THEN <<[h \in {hs[j] : j \in 1..Len(hs)} |-> removeQuotes(values[last(h)])]>>
              ELSE <<>>) \o parseRowsFrom(lines, i + 1, hs)

\* readExistingCSV() on the file content, absent without file
readExistingCSV(file) ==
    IF ~IsSome(file) THEN <<>>
    ELSE LET lines == split(Trim(Get(file)), LineFeed)
             names == split(lines[1], Comma)
             hs == [j \in 1..Len(names) |-> removeQuotes(names[j])]
         IN  IF Len(lines) <= 1 THEN <<>> ELSE parseRowsFrom(lines, 2, hs)

ReadExistingCSV ==
    /\ csvPc = "written"
    /\ csvData' = Some(readExistingCSV(csvFile))
    /\ csvPc' = "read"
    /\ UNCHANGED <<csvMode, csvTranscripts, csvI, csvFile, csvContent, headersWritten,
                   initialized, fileHandle, csvCalls>>

(***************************************************************************)
(* Inputs of the CSV exporter                                              *)
(***************************************************************************)

MaxTranscripts == 2
MaxActivity == 2
MaxMessages == 2

\* message bodies: plain, with a comma, with a double quote, with a line feed,
\* empty, with a carriage return and a line feed
CsvBodies ==
    << <<"a">>, <<"a", Comma, "b">>, <<"a", DoubleQuote, "b">>, <<"a", LineFeed, "b">>,
       <<>>, <<"a", CarriageReturn, LineFeed>> >>

CsvSubjects == { <<>>, <<"s", LineFeed, DoubleQuote, Comma, "t">> }

Digit(n) == <<"0", "1", "2", "3", "4", "5", "6", "7", "8", "9">>[n + 1]

\* message k of transcript i; offset turns the list of bodies
CsvMessage(i, k, offset) ==
    [ id |-> <<Digit(i), Digit(k)>>,
      type |-> <<"c">>,
      body |-> CsvBodies[((offset + 2 * i + k) % Len(CsvBodies)) + 1],
      author |-> [type |-> <<"u">>, id |-> <<"7">>, name |-> <<"n", DoubleQuote>>],
      createdAt |-> <<"5">> ]

\* transcript i with count messages; count -1 stands for a transcript without
\* messages property
CsvTranscript(i, count, subject, offset) ==
    [ conversationId |-> <<Digit(i)>>,
      createdAt |-> <<"3">>,
      updatedAt |-> <<"4">>,
      subject |-> subject,
      messages |-> IF count < 0 THEN None
                   ELSE Some([k \in 1..count |-> CsvMessage(i, k, offset)]) ]

(***************************************************************************)
(* Startup: the modules an entry point loads, and the validation in config *)
(***************************************************************************)

\* const requiredEnvVars = [...]
requiredEnvVars == <<"INTERCOM_ACCESS_TOKEN", "CAPLENA_API_KEY">>

\* requiredEnvVars.filter(varName => !process.env[varName])
missingVars(env) == SelectSeq(requiredEnvVars, LAMBDA varName : varName \notin env)

\* the scripts node is started with: bulk export, daily sync (command line and
\* scheduler service), deduplicate, empty-project
entryPoints == {"index", "sync", "railway", "deduplicate", "emptyCaplenaProject"}

\* faulty variant: services/caplena reads process.env itself, as
\* services/caplenaRowManager does
requiresOfWithoutConfigInCaplena(module) ==
    CASE module = "index" ->
            <<"services/intercom", "services/caplena", "utils/csvExporter", "config",
              "utils/logger">>
      [] module = "sync" -> <<"dailySync", "utils/logger">>
      [] module = "railway" -> <<"scheduler", "utils/logger">>
      [] module = "scheduler" -> <<"dailySync", "utils/logger">>
      [] module = "dailySync" ->
            <<"services/intercom", "services/caplena", "utils/csvExporter", "config",
              "utils/logger">>
      [] module \in {"deduplicate", "emptyCaplenaProject"} ->
            <<"services/caplena", "services/caplenaRowManager", "utils/logger">>
      [] module = "services/intercom" -> <<"config", "utils/logger">>
      [] module \in {"services/caplena", "services/caplenaRowManager",
                     "utils/csvExporter"} -> <<"utils/logger">>
      [] OTHER -> <<>>

\* the local modules a module requires at its top, in order (dotenv, axios,
\* express, fs and path are libraries that send nothing and write nothing)
requiresOf(module) ==
    CASE module = "index" ->
            <<"services/intercom", "services/caplena", "utils/csvExporter", "config",
              "utils/logger">>
      [] module = "sync" -> <<"dailySync", "utils/logger">>
      [] module = "railway" -> <<"scheduler", "utils/logger">>
      [] module = "scheduler" -> <<"dailySync", "utils/logger">>
      [] module = "dailySync" ->
            <<"services/intercom", "services/caplena", "utils/csvExporter", "config",
              "utils/logger">>
      [] module \in {"deduplicate", "emptyCaplenaProject"} ->
            <<"services/caplena", "services/caplenaRowManager", "utils/logger">>
      [] module \in {"services/intercom", "services/caplena"} ->
            <<"config", "utils/logger">>
      [] module \in {"services/caplenaRowManager", "utils/csvExporter"} ->
            <<"utils/logger">>
      [] OTHER -> <<>>

topFrame == loadStack[Len(loadStack)]

\* the frames below the innermost one, and the innermost one moved on by one
\* require
framesBelow == SubSeq(loadStack, 1, Len(loadStack) - 1)

advancedTop == [module |-> topFrame.module, next |-> topFrame.next + 1]

\* node <entry point>: the script begins to load
StartEntryPoint ==
    /\ startPc = "idle" /\ entryPoint # "none"
    /\ startPc' = "loading"
    /\ loadStack' = <<[module |-> entryPoint, next |-> 1]>>
    /\ loadedModules' = {entryPoint}
    /\ UNCHANGED <<entryPoint, envVars, activityLog>>

\* require(module): a module already in the cache is not loaded again, another
\* one begins to load
Require ==
    /\ startPc = "loading"
    /\ topFrame.next <= Len(requiresOf(topFrame.module))
    /\ LET module == requiresOf(topFrame.module)[topFrame.next]
       IN  IF module \in loadedModules
           THEN /\ loadStack' = Append(framesBelow, advancedTop)
                /\ UNCHANGED loadedModules
           ELSE /\ loadStack' = Append(Append(framesBelow, advancedTop),
                                       [module |-> module, next |-> 1])
                /\ loadedModules' = loadedModules \cup {module}
    /\ UNCHANGED <<entryPoint, envVars, startPc, activityLog>>

\* the body of config after its requires: if (missingVars.length > 0) throw;
\* no module catches what a require throws
ConfigThrows ==
    /\ startPc = "loading"
    /\ topFrame.next > Len(requiresOf(topFrame.module))
    /\ topFrame.module = "config" /\ Len(missingVars(envVars)) > 0
    /\ startPc' = "failed"
    /\ loadStack' = <<>>
    /\ UNCHANGED <<entryPoint, envVars, loadedModules, activityLog>>

\* the body of a module after its requires has run: class definitions and
\* module.exports; the logger may open its log file; after the entry point's
\* own body the process runs its main function
ModuleLoaded ==
    /\ startPc = "loading"
    /\ topFrame.next > Len(requiresOf(topFrame.module))
    /\ ~(topFrame.module = "config" /\ Len(missingVars(envVars)) > 0)
    /\ loadStack' = framesBelow
    /\ startPc' = IF Len(loadStack) = 1 THEN "running" ELSE "loading"
    /\ \E wrote \in BOOLEAN :
          /\ wrote => topFrame.module = "utils/logger"
          /\ activityLog' = IF wrote THEN Append(activityLog, "log file") ELSE activityLog
    /\ UNCHANGED <<entryPoint, envVars, loadedModules>>

\* main(): the pipeline sends requests to the source and to the destination
\* and writes files
PipelineActivity ==
    /\ startPc = "running"
    /\ Len(SelectSeq(activityLog, LAMBDA a : a # "log file")) < MaxActivity
    /\ \E a \in {"source request", "destination request", "output file"} :
          activityLog' = Append(activityLog, a)
    /\ UNCHANGED <<entryPoint, envVars, loadStack, loadedModules, startPc>>

IdleStart ==
    /\ entryPoint = "none" /\ envVars = {} /\ loadStack = <<>> /\ loadedModules = {}
    /\ startPc = "idle" /\ activityLog = <<>>

IdleCsv ==
    /\ csvMode = "none" /\ csvTranscripts = <<>> /\ csvPc = "idle" /\ csvI = 0
    /\ csvFile = None /\ csvContent = None
    /\ headersWritten = FALSE /\ initialized = FALSE /\ fileHandle = FALSE
    /\ csvData = None /\ csvCalls = <<>>

IdleExtract == conversation = None /\ transcript = None /\ exPc = "idle"

IdleDedup ==
    /\ projectRows = <<>> /\ deletedIds = {} /\ ddCaller = "none" /\ ddPc = "idle"
    /\ page = 0 /\ hasMore = FALSE /\ allRows = <<>>
    /\ duplicates = <<>> /\ delI = 0 /\ results = EmptyResults
    /\ requestLog = <<>> /\ ddRet = None

IdleUpload ==
    /\ conversations = <<>> /\ caplenaRows = <<>> /\ batches = <<>> /\ upI = 0
    /\ uploadResults = <<>> /\ totalUploaded = 0 /\ upPc = "idle"
    /\ postLog = <<>> /\ postInFlight = {} /\ postFailed = {} /\ upRet = None

IdleSync == syncPc = "idle" /\ transcripts = <<>> /\ project = None /\ syncRet = None

IdleFetch ==
    /\ srcFresh = 0 /\ srcOlder = 0 /\ srcKinds = <<>> /\ srcPageCap = 0
    /\ srcListHasParts = FALSE /\ srcNext = honestNext(0)
    /\ processedIds = {} /\ toProcess = <<>> /\ slots = <<>> /\ detailFailed = {}
    /\ totalProcessed = 0
    /\ fetchCaller = "none" /\ fetchPc = "idle"
    /\ limit = None /\ pageNo = 0 /\ startingAfter = None /\ fetchHasMore = FALSE
    /\ fetched = <<>> /\ intercomLog = <<>> /\ listFailed = FALSE /\ fetchRet = None

InitExtract ==
    /\ IdleSync
    /\ IdleCsv
    /\ IdleStart
    /\ \/ conversation \in ConversationsWithoutParts
       \/ \E n \in 0..MaxParts : \E kinds \in [1..n -> PartKinds] :
             conversation = ConversationWithParts(PartList(kinds))
    /\ transcript = None
    /\ exPc = "ready"
    /\ IdleDedup
    /\ IdleUpload
    /\ IdleFetch

Extract ==
    /\ exPc = "ready"
    /\ transcript' = extractTranscriptData(conversation)
    /\ exPc' = "done"
    /\ UNCHANGED conversation

InitDedup ==
    /\ IdleSync
    /\ IdleCsv
    /\ IdleStart
    /\ IdleExtract
    /\ IdleUpload
    /\ IdleFetch
    /\ \E n \in 0..MaxRows : \E contents \in [1..n -> RowContents] :
          projectRows = ProjectRows(contents)
    /\ deletedIds = {}
    /\ ddCaller = "deduplicateProject"
    /\ ddPc = "start"
    /\ page = 0 /\ hasMore = FALSE /\ allRows = <<>>
    /\ duplicates = <<>> /\ delI = 0 /\ results = EmptyResults
    /\ requestLog = <<>>
    /\ ddRet = None

NextDedup ==
    \/ DeduplicateProject /\ UNCHANGED <<extractVars, uploadVars, fetchVars, syncVars, csvVars, startVars>>
    \/ ListRequest /\ UNCHANGED <<extractVars, uploadVars, fetchVars, syncVars, csvVars, startVars>>
    \/ ListResponse /\ UNCHANGED <<extractVars, uploadVars, fetchVars, syncVars, csvVars, startVars>>
    \/ ListError /\ UNCHANGED <<extractVars, uploadVars, fetchVars, syncVars, csvVars, startVars>>
    \/ ListDelay /\ UNCHANGED <<extractVars, uploadVars, fetchVars, syncVars, csvVars, startVars>>
    \/ DeleteDuplicates /\ UNCHANGED <<extractVars, uploadVars, fetchVars, syncVars, csvVars, startVars>>
    \/ DeleteRequest /\ UNCHANGED <<extractVars, uploadVars, fetchVars, syncVars, csvVars, startVars>>
    \/ DeleteOk /\ UNCHANGED <<extractVars, uploadVars, fetchVars, syncVars, csvVars, startVars>>
    \/ DeleteDelay /\ UNCHANGED <<extractVars, uploadVars, fetchVars, syncVars, csvVars, startVars>>
    \/ DeleteError /\ UNCHANGED <<extractVars, uploadVars, fetchVars, syncVars, csvVars, startVars>>

\* deleteDuplicates called with a list of n duplicates of one original row
DuplicatesOfOneRow(n) ==
    [i \in 1..n |->
        [ original  |-> [id |-> 0, columns |-> <<TextColumn(<<"x">>), ConversationIdColumn(<<"a">>)>>],
          duplicate |-> [id |-> i, columns |-> <<TextColumn(<<"x">>), ConversationIdColumn(<<"a">>)>>],
          key       |-> <<"a", "|", "x">> ]]

InitDelete ==
    /\ IdleSync
    /\ IdleCsv
    /\ IdleStart
    /\ IdleExtract
    /\ IdleUpload
    /\ IdleFetch
    /\ \E n \in 0..MaxDuplicates : duplicates = DuplicatesOfOneRow(n)
    /\ projectRows = <<>>
    /\ deletedIds = {}
    /\ ddCaller = "deleteDuplicates"
    /\ ddPc = "deleteDuplicates"
    /\ page = 0 /\ hasMore = FALSE /\ allRows = <<>>
    /\ delI = 0 /\ results = EmptyResults
    /\ requestLog = <<>>
    /\ ddRet = None

NextDelete ==
    \/ DeleteDuplicates /\ UNCHANGED <<extractVars, uploadVars, fetchVars, syncVars, csvVars, startVars>>
    \/ DeleteRequest /\ UNCHANGED <<extractVars, uploadVars, fetchVars, syncVars, csvVars, startVars>>
    \/ DeleteOk /\ UNCHANGED <<extractVars, uploadVars, fetchVars, syncVars, csvVars, startVars>>
    \/ DeleteDelay /\ UNCHANGED <<extractVars, uploadVars, fetchVars, syncVars, csvVars, startVars>>
    \/ DeleteError /\ UNCHANGED <<extractVars, uploadVars, fetchVars, syncVars, csvVars, startVars>>

InitUpload ==
    /\ IdleSync
    /\ IdleCsv
    /\ IdleStart
    /\ IdleExtract
    /\ IdleDedup
    /\ IdleFetch
    /\ \/ conversations = <<None>>
       \/ \E n \in 0..MaxConversations : \E f \in [0..(PatternPeriod - 1) -> MessageLists] :
             conversations = ConversationList(n, f)
    /\ caplenaRows = <<>> /\ batches = <<>> /\ upI = 0
    /\ uploadResults = <<>> /\ totalUploaded = 0
    /\ upPc = "start"
    /\ postLog = <<>> /\ postInFlight = {} /\ postFailed = {}
    /\ upRet = None

NextUpload ==
    \/ UploadConversations /\ UNCHANGED <<extractVars, dedupVars, fetchVars, syncVars, csvVars, startVars>>
    \/ PostBatch /\ UNCHANGED <<extractVars, dedupVars, fetchVars, syncVars, csvVars, startVars>>
    \/ PostOk /\ UNCHANGED <<extractVars, dedupVars, fetchVars, syncVars, csvVars, startVars>>
    \/ PostDelay /\ UNCHANGED <<extractVars, dedupVars, fetchVars, syncVars, csvVars, startVars>>
    \/ PostError /\ UNCHANGED <<extractVars, dedupVars, fetchVars, syncVars, csvVars, startVars>>

InitSince ==
    /\ IdleSync
    /\ IdleCsv
    /\ IdleStart
    /\ IdleExtract
    /\ IdleDedup
    /\ IdleUpload
    /\ srcFresh \in 0..MaxSummaries
    /\ srcOlder \in 0..MaxOlder
    /\ srcKinds = <<>> /\ srcPageCap = perPage /\ srcListHasParts = FALSE
    /\ srcNext = honestNext(srcFresh + srcOlder)
    /\ processedIds = {} /\ toProcess = <<>> /\ slots = <<>> /\ detailFailed = {}
    /\ totalProcessed = 0
    /\ fetchCaller = "getConversationsSince"
    /\ fetchPc = "start"
    /\ limit = Some(defaultLimit)
    /\ pageNo = 0 /\ startingAfter = None /\ fetchHasMore = FALSE
    /\ fetched = <<>> /\ intercomLog = <<>> /\ listFailed = FALSE /\ fetchRet = None

NextSince ==
    \/ GetConversationsSince /\ UNCHANGED <<extractVars, dedupVars, uploadVars, syncVars, csvVars, startVars>>
    \/ SinceListRequest /\ UNCHANGED <<extractVars, dedupVars, uploadVars, syncVars, csvVars, startVars>>
    \/ SinceListOk /\ UNCHANGED <<extractVars, dedupVars, uploadVars, syncVars, csvVars, startVars>>
    \/ SinceListError /\ UNCHANGED <<extractVars, dedupVars, uploadVars, syncVars, csvVars, startVars>>
    \/ SinceDelay /\ UNCHANGED <<extractVars, dedupVars, uploadVars, syncVars, csvVars, startVars>>

InitFetch ==
    /\ IdleSync
    /\ IdleCsv
    /\ IdleStart
    /\ IdleExtract
    /\ IdleDedup
    /\ IdleUpload
    /\ \/ /\ fetchCaller = "getAllConversationsWithTranscripts"
          /\ limit \in {None} \cup {Some(l) : l \in 0..MaxLimit}
          /\ srcOlder = 0
       \/ /\ fetchCaller = "getConversationsWithTranscriptsSince"
          /\ limit = Some(defaultLimit)
          /\ srcOlder \in 0..MaxOlder
    /\ srcFresh \in 0..MaxConversationsAll
    /\ srcKinds \in [1..(srcFresh + srcOlder) -> DetailKinds]
    /\ srcPageCap \in 1..MaxPageCap
    /\ srcListHasParts = FALSE
    /\ srcNext = honestNext(srcFresh + srcOlder)
    /\ processedIds = {} /\ toProcess = <<>> /\ slots = <<>> /\ detailFailed = {}
    /\ totalProcessed = 0
    /\ fetchPc = "start"
    /\ pageNo = 0 /\ startingAfter = None /\ fetchHasMore = FALSE
    /\ fetched = <<>> /\ intercomLog = <<>> /\ listFailed = FALSE /\ fetchRet = None

NextFetch ==
    \/ GetAllConversationsWithTranscripts /\ UNCHANGED <<extractVars, dedupVars, uploadVars, syncVars, csvVars, startVars>>
    \/ AllListRequest /\ UNCHANGED <<extractVars, dedupVars, uploadVars, syncVars, csvVars, startVars>>
    \/ AllListOk /\ UNCHANGED <<extractVars, dedupVars, uploadVars, syncVars, csvVars, startVars>>
    \/ AllListError /\ UNCHANGED <<extractVars, dedupVars, uploadVars, syncVars, csvVars, startVars>>
    \/ DetailOk /\ UNCHANGED <<extractVars, dedupVars, uploadVars, syncVars, csvVars, startVars>>
    \/ DetailError /\ UNCHANGED <<extractVars, dedupVars, uploadVars, syncVars, csvVars, startVars>>
    \/ ContactOk /\ UNCHANGED <<extractVars, dedupVars, uploadVars, syncVars, csvVars, startVars>>
    \/ ContactError /\ UNCHANGED <<extractVars, dedupVars, uploadVars, syncVars, csvVars, startVars>>
    \/ AllPageDone /\ UNCHANGED <<extractVars, dedupVars, uploadVars, syncVars, csvVars, startVars>>
    \/ AllDelay /\ UNCHANGED <<extractVars, dedupVars, uploadVars, syncVars, csvVars, startVars>>
    \/ GetConversationsSince /\ UNCHANGED <<extractVars, dedupVars, uploadVars, syncVars, csvVars, startVars>>
    \/ SinceListRequest /\ UNCHANGED <<extractVars, dedupVars, uploadVars, syncVars, csvVars, startVars>>
    \/ SinceListError /\ UNCHANGED <<extractVars, dedupVars, uploadVars, syncVars, csvVars, startVars>>
    \/ SinceDelay /\ UNCHANGED <<extractVars, dedupVars, uploadVars, syncVars, csvVars, startVars>>
    \/ WtsListOk /\ UNCHANGED <<extractVars, dedupVars, uploadVars, syncVars, csvVars, startVars>>
    \/ WtsDetailRequest /\ UNCHANGED <<extractVars, dedupVars, uploadVars, syncVars, csvVars, startVars>>
    \/ WtsDetailOk /\ UNCHANGED <<extractVars, dedupVars, uploadVars, syncVars, csvVars, startVars>>
    \/ WtsDetailError /\ UNCHANGED <<extractVars, dedupVars, uploadVars, syncVars, csvVars, startVars>>
    \/ WtsContactDone /\ UNCHANGED <<extractVars, dedupVars, uploadVars, syncVars, csvVars, startVars>>
    \/ WtsPageDone /\ UNCHANGED <<extractVars, dedupVars, uploadVars, syncVars, csvVars, startVars>>

\* getAllConversationsWithTranscripts with a source that answers every page
\* with any pages.next: absent, the falsy cursor 0, or the cursor of any
\* conversation, so that pages repeat summaries and cursors run in cycles
InitCursor ==
    /\ IdleSync
    /\ IdleCsv
    /\ IdleStart
    /\ IdleExtract
    /\ IdleDedup
    /\ IdleUpload
    /\ fetchCaller = "getAllConversationsWithTranscripts"
    /\ limit \in {None} \cup {Some(l) : l \in 0..MaxLimit}
    /\ srcFresh \in 0..MaxCursorIds
    /\ srcOlder = 0
    /\ srcKinds = [i \in 1..srcFresh |->
                      IF i % 2 = 1
                      THEN [parts |-> <<AdminPart, UserPart>>, contacts |-> <<[id |-> "k"]>>]
                      ELSE [parts |-> <<AdminPart>>, contacts |-> <<>>]]
    /\ srcPageCap \in 1..MaxPageCap
    /\ srcListHasParts = FALSE
    /\ srcNext \in [0..srcFresh ->
                       {None} \cup {Some([starting_after |-> c]) : c \in 0..srcFresh}]
    /\ processedIds = {} /\ toProcess = <<>> /\ slots = <<>> /\ detailFailed = {}
    /\ totalProcessed = 0
    /\ fetchPc = "start"
    /\ pageNo = 0 /\ startingAfter = None /\ fetchHasMore = FALSE
    /\ fetched = <<>> /\ intercomLog = <<>> /\ listFailed = FALSE /\ fetchRet = None

NextCursor ==
    \/ GetAllConversationsWithTranscripts /\ UNCHANGED <<extractVars, dedupVars, uploadVars, syncVars, csvVars, startVars>>
    \/ AllListRequest /\ UNCHANGED <<extractVars, dedupVars, uploadVars, syncVars, csvVars, startVars>>
    \/ AllListOk /\ UNCHANGED <<extractVars, dedupVars, uploadVars, syncVars, csvVars, startVars>>
    \/ AllListError /\ UNCHANGED <<extractVars, dedupVars, uploadVars, syncVars, csvVars, startVars>>
    \/ DetailOk /\ UNCHANGED <<extractVars, dedupVars, uploadVars, syncVars, csvVars, startVars>>
    \/ DetailError /\ UNCHANGED <<extractVars, dedupVars, uploadVars, syncVars, csvVars, startVars>>
    \/ ContactOk /\ UNCHANGED <<extractVars, dedupVars, uploadVars, syncVars, csvVars, startVars>>
    \/ ContactError /\ UNCHANGED <<extractVars, dedupVars, uploadVars, syncVars, csvVars, startVars>>
    \/ AllPageDone /\ UNCHANGED <<extractVars, dedupVars, uploadVars, syncVars, csvVars, startVars>>
    \/ AllDelay /\ UNCHANGED <<extractVars, dedupVars, uploadVars, syncVars, csvVars, startVars>>

InitSync ==
    /\ IdleCsv
    /\ IdleStart
    /\ IdleExtract
    /\ IdleDedup
    /\ IdleUpload
    /\ srcFresh \in 0..MaxSyncConversations
    /\ srcOlder \in 0..MaxOlder
    /\ \E f \in [0..(PatternPeriod - 1) -> SyncKinds] :
          srcKinds = [i \in 1..(srcFresh + srcOlder) |-> f[i % PatternPeriod]]
    /\ srcPageCap = perPage
    /\ srcListHasParts \in BOOLEAN
    /\ srcNext = honestNext(srcFresh + srcOlder)
    /\ processedIds = {} /\ toProcess = <<>> /\ slots = <<>> /\ detailFailed = {}
    /\ totalProcessed = 0
    /\ fetchCaller = "none" /\ fetchPc = "idle" /\ limit = None
    /\ pageNo = 0 /\ startingAfter = None /\ fetchHasMore = FALSE
    /\ fetched = <<>> /\ intercomLog = <<>> /\ listFailed = FALSE /\ fetchRet = None
    /\ syncPc = "start" /\ transcripts = <<>> /\ project = None /\ syncRet = None

NextSync ==
    \/ SyncNewConversations /\ UNCHANGED <<csvVars, startVars>>
    \/ GetConversationsSince /\ UNCHANGED <<extractVars, dedupVars, uploadVars, syncVars, csvVars, startVars>>
    \/ SinceListRequest /\ UNCHANGED <<extractVars, dedupVars, uploadVars, syncVars, csvVars, startVars>>
    \/ SinceListOk /\ UNCHANGED <<extractVars, dedupVars, uploadVars, syncVars, csvVars, startVars>>
    \/ SinceListError /\ UNCHANGED <<extractVars, dedupVars, uploadVars, syncVars, csvVars, startVars>>
    \/ SinceDelay /\ UNCHANGED <<extractVars, dedupVars, uploadVars, syncVars, csvVars, startVars>>
    \/ SyncFetched /\ UNCHANGED <<csvVars, startVars>>
    \/ SyncFetchThrown /\ UNCHANGED <<csvVars, startVars>>
    \/ EnsureProjectExists /\ UNCHANGED <<csvVars, startVars>>
    \/ UploadConversations /\ UNCHANGED <<extractVars, dedupVars, fetchVars, syncVars, csvVars, startVars>>
    \/ PostBatch /\ UNCHANGED <<extractVars, dedupVars, fetchVars, syncVars, csvVars, startVars>>
    \/ PostOk /\ UNCHANGED <<extractVars, dedupVars, fetchVars, syncVars, csvVars, startVars>>
    \/ PostDelay /\ UNCHANGED <<extractVars, dedupVars, fetchVars, syncVars, csvVars, startVars>>
    \/ PostError /\ UNCHANGED <<extractVars, dedupVars, fetchVars, syncVars, csvVars, startVars>>
    \/ SyncUploaded /\ UNCHANGED <<csvVars, startVars>>
    \/ SyncUploadThrown /\ UNCHANGED <<csvVars, startVars>>

InitCsv ==
    /\ IdleStart
    /\ IdleExtract
    /\ IdleDedup
    /\ IdleUpload
    /\ IdleFetch
    /\ IdleSync
    /\ csvMode \in {"exportToCSV", "appendTranscript"}
    /\ \E n \in 0..MaxTranscripts : \E counts \in [1..n -> (-1)..MaxMessages] :
       \E subject \in CsvSubjects : \E offset \in 0..(Len(CsvBodies) - 1) :
          csvTranscripts = [i \in 1..n |-> CsvTranscript(i, counts[i], subject, offset)]
    /\ csvPc = "start" /\ csvI = 0
    /\ csvFile \in {None, Some(<<>>)}
    /\ csvContent = None
    /\ headersWritten = FALSE /\ initialized = FALSE /\ fileHandle = FALSE
    /\ csvData = None /\ csvCalls = <<>>

NextCsv ==
    \/ ExportToCSV /\ UNCHANGED <<extractVars, dedupVars, uploadVars, fetchVars, syncVars, startVars>>
    \/ InitializeCSV /\ UNCHANGED <<extractVars, dedupVars, uploadVars, fetchVars, syncVars, startVars>>
    \/ AppendTranscript /\ UNCHANGED <<extractVars, dedupVars, uploadVars, fetchVars, syncVars, startVars>>
    \/ CloseCSV /\ UNCHANGED <<extractVars, dedupVars, uploadVars, fetchVars, syncVars, startVars>>
    \/ ReadExistingCSV /\ UNCHANGED <<extractVars, dedupVars, uploadVars, fetchVars, syncVars, startVars>>

\* one exporter, constructed on a path where no file, an empty file, the file
\* of an earlier export or a file of other content lies, and then called in
\* any order
InitCalls ==
    /\ IdleStart
    /\ IdleExtract
    /\ IdleDedup
    /\ IdleUpload
    /\ IdleFetch
    /\ IdleSync
    /\ csvMode = "calls"
    /\ \E subject \in CsvSubjects :
          csvTranscripts = [i \in 1..(MaxMessages + 2) |-> CsvTranscript(i, i - 2, subject, 0)]
    /\ csvPc = "idle" /\ csvI = 0
    /\ csvFile \in {None, Some(<<>>), Some(<<"x", LineFeed>>),
                     Some(headerLine \o <<LineFeed>>
                          \o csvRow(CsvTranscript(0, 1, <<>>, 0), CsvMessage(0, 1, 0))
                          \o <<LineFeed>>)}
    /\ csvContent = None
    /\ headersWritten = FALSE /\ initialized = FALSE /\ fileHandle = FALSE
    /\ csvData = None /\ csvCalls = <<>>

NextCalls ==
    \/ InitializeCSVCall /\ UNCHANGED <<extractVars, dedupVars, uploadVars, fetchVars, syncVars, startVars>>
    \/ AppendTranscriptCall /\ UNCHANGED <<extractVars, dedupVars, uploadVars, fetchVars, syncVars, startVars>>
    \/ CloseCSVCall /\ UNCHANGED <<extractVars, dedupVars, uploadVars, fetchVars, syncVars, startVars>>

InitStart ==
    /\ IdleExtract
    /\ IdleDedup
    /\ IdleUpload
    /\ IdleFetch
    /\ IdleSync
    /\ IdleCsv
    /\ entryPoint \in entryPoints
    /\ envVars \in SUBSET {requiredEnvVars[i] : i \in 1..Len(requiredEnvVars)}
    /\ loadStack = <<>> /\ loadedModules = {}
    /\ startPc = "idle" /\ activityLog = <<>>

NextStart ==
    \/ StartEntryPoint /\ UNCHANGED <<extractVars, dedupVars, uploadVars, fetchVars, syncVars, csvVars>>
    \/ Require /\ UNCHANGED <<extractVars, dedupVars, uploadVars, fetchVars, syncVars, csvVars>>
    \/ ConfigThrows /\ UNCHANGED <<extractVars, dedupVars, uploadVars, fetchVars, syncVars, csvVars>>
    \/ ModuleLoaded /\ UNCHANGED <<extractVars, dedupVars, uploadVars, fetchVars, syncVars, csvVars>>
    \/ PipelineActivity /\ UNCHANGED <<extractVars, dedupVars, uploadVars, fetchVars, syncVars, csvVars>>

vars == <<extractVars, dedupVars, uploadVars, fetchVars, syncVars, csvVars, startVars>>

NextExtract == Extract /\ UNCHANGED <<dedupVars, uploadVars, fetchVars, syncVars, csvVars, startVars>>

SpecExtract == InitExtract /\ [][NextExtract]_vars

SpecDedup == InitDedup /\ [][NextDedup]_vars

SpecDelete == InitDelete /\ [][NextDelete]_vars

SpecUpload == InitUpload /\ [][NextUpload]_vars

SpecSince == InitSince /\ [][NextSince]_vars

SpecFetch == InitFetch /\ [][NextFetch]_vars

SpecCursor == InitCursor /\ [][NextCursor]_vars

SpecCalls == InitCalls /\ [][NextCalls]_vars

SpecSync == InitSync /\ [][NextSync]_vars

SpecCsv == InitCsv /\ [][NextCsv]_vars

SpecStart == InitStart /\ [][NextStart]_vars

(***************************************************************************)
(* Claims about the extractor                                              *)
(***************************************************************************)

\* the part list of a conversation, empty when the conversation has none
PartsOf(conv) ==
    IF IsSome(conv) /\ IsSome(Get(conv).conversation_parts)
       /\ IsSome(Get(Get(conv).conversation_parts).conversation_parts)
    THEN Get(Get(Get(conv).conversation_parts).conversation_parts)
    ELSE <<>>

EndUserIndexes(conv) ==
    {i \in 1..Len(PartsOf(conv)) : PartsOf(conv)[i].author = Some([type |-> "user"])}

\* a body after tag stripping, whitespace normalization, quote normalization
\* and case folding
BoilerplateForm(body) ==
    ToLowerCase(NormalizeQuotes(NormalizeApostrophes(
        Trim(CollapseWhitespace(StripTags(body))))))

BoilerplateEntries == {ToLowerCase(stockResponses[i]) : i \in 1..Len(stockResponses)}

IsBoilerplatePart(part) ==
    BoilerplateForm(IF part.body = None THEN <<>> ELSE part.body[1]) \in BoilerplateEntries

NonBoilerplateEndUserIndexes(conv) ==
    {i \in EndUserIndexes(conv) : ~IsBoilerplatePart(PartsOf(conv)[i])}

PositionOfPart(conv, id) == CHOOSE i \in 1..Len(PartsOf(conv)) : PartsOf(conv)[i].id = id

\* C1: a conversation with zero parts of author type "user" (a conversation
\* without conversation_parts included) makes extractTranscriptData return null.
C1_NoEndUserPartsGivesNull ==
    (exPc = "done" /\ EndUserIndexes(conversation) = {}) => transcript = None

C1_Witness ==
    /\ exPc = "done"
    /\ Len(PartsOf(conversation)) >= 2
    /\ EndUserIndexes(conversation) = {}
    /\ \E i \in 1..Len(PartsOf(conversation)) : ~IsBoilerplatePart(PartsOf(conversation)[i])
    /\ transcript = None

\* C2: when every end-user message is, after tag stripping, whitespace/quote
\* normalization and case folding, an entry of the boilerplate list, the result
\* is null; a Transcript that is returned has at least one message.
C2_AllBoilerplateGivesNull ==
    exPc = "done" =>
        /\ NonBoilerplateEndUserIndexes(conversation) = {} => transcript = None
        /\ IsSome(transcript) => Len(Get(transcript).messages) >= 1

C2_Witness ==
    /\ exPc = "done"
    /\ Cardinality(EndUserIndexes(conversation)) >= 2
    /\ NonBoilerplateEndUserIndexes(conversation) = {}
    /\ \E i \in EndUserIndexes(conversation) :
          PartsOf(conversation)[i].body = Some(BodyThanksMarkup)
    /\ \E i \in EndUserIndexes(conversation) :
          PartsOf(conversation)[i].body = Some(BodyMaybeCurly)
    /\ transcript = None

\* C3: with at least one non-boilerplate end-user message, the Transcript holds
\* exactly the non-boilerplate end-user parts, in the order of the part list,
\* and no part of another author type.
C3_TranscriptKeepsEndUserPartsInOrder ==
    (exPc = "done" /\ NonBoilerplateEndUserIndexes(conversation) # {}) =>
        /\ IsSome(transcript)
        /\ LET T == Get(transcript).messages
               kept == NonBoilerplateEndUserIndexes(conversation)
           IN  /\ Len(T) = Cardinality(kept)
               /\ {T[k].id : k \in 1..Len(T)} = {PartsOf(conversation)[i].id : i \in kept}
               /\ \A k \in 1..Len(T) : T[k].author.type = "user"
               /\ \A k, l \in 1..Len(T) :
                     k < l => PositionOfPart(conversation, T[k].id)
                                < PositionOfPart(conversation, T[l].id)

C3_Witness ==
    /\ exPc = "done"
    /\ Cardinality(NonBoilerplateEndUserIndexes(conversation)) >= 2
    /\ Cardinality(EndUserIndexes(conversation)) < Len(PartsOf(conversation))
    /\ IsSome(transcript)
    /\ Len(Get(transcript).messages) = 2

(***************************************************************************)
(* Claims about the deduplicator                                           *)
(***************************************************************************)

\* the value of a row's column, empty when the row has no such column or the
\* column has no value
ColumnText(row, ref) ==
    LET hits == {i \in 1..Len(row.columns) : row.columns[i].ref = ref}
        first == CHOOSE i \in hits : \A j \in hits : i <= j
    IN  IF hits = {} \/ row.columns[first].value = None THEN <<>>
        ELSE row.columns[first].value[1]

HasKey(row) == ColumnText(row, "conversation_id") # <<>> /\ ColumnText(row, "text") # <<>>

\* DedupKey: conversation_id + "|" + text
RowKey(row) == ColumnText(row, "conversation_id") \o <<"|">> \o ColumnText(row, "text")

\* the index of the first row of `rows` carrying the key of rows[j]
FirstIndexOfKey(rows, j) ==
    CHOOSE i \in 1..j : /\ HasKey(rows[i]) /\ RowKey(rows[i]) = RowKey(rows[j])
                        /\ \A h \in 1..(i - 1) :
                              ~(HasKey(rows[h]) /\ RowKey(rows[h]) = RowKey(rows[j]))

\* the indexes of the rows that share their key with an earlier row
LaterIndexes(rows) ==
    {j \in 1..Len(rows) : HasKey(rows[j]) /\ FirstIndexOfKey(rows, j) < j}

DeleteRequests == SelectSeq(requestLog, LAMBDA r : r.kind = "delete")

DeleteRequestedIds == {DeleteRequests[k].arg : k \in 1..Len(DeleteRequests)}

\* C4: deduplicateProject sends a delete request for exactly the rows that share
\* their DedupKey with an earlier row of the listing, each once; never for the
\* first row of a key or for a row without a key; when every deletion succeeds,
\* of the rows of each key exactly the first remains.
C4_DeletesExactlyLaterRowsOfAKey ==
    LET later == {projectRows[j].id : j \in LaterIndexes(projectRows)}
    IN  /\ DeleteRequestedIds \subseteq later
        /\ \A k, l \in 1..Len(DeleteRequests) :
              k # l => DeleteRequests[k].arg # DeleteRequests[l].arg
        /\ deletedIds \subseteq DeleteRequestedIds
        /\ ddPc = "done" => DeleteRequestedIds = later
        /\ (ddPc = "done" /\ results.failed = 0) =>
              \A j \in 1..Len(projectRows) :
                  HasKey(projectRows[j]) =>
                      (projectRows[j].id \notin deletedIds
                          <=> FirstIndexOfKey(projectRows, j) = j)

C4_Witness ==
    /\ ddPc = "done"
    /\ results.failed = 0
    /\ Cardinality(deletedIds) = 1
    /\ Len(projectRows) = 3
    /\ \E j \in 1..Len(projectRows) : ~HasKey(projectRows[j])
    /\ projectRows[3].id \in deletedIds

\* C5: identifyDuplicates returns one entry per row whose key was seen on an
\* earlier row, in row order, and the entry's original is the first row with
\* that key; R1(a,x), R2(a,x), R3(a,y) gives exactly the pair (R1, R2).
ExampleRow(id, conversationId, text) ==
    [id |-> id, columns |-> <<TextColumn(text), ConversationIdColumn(conversationId)>>]

ExampleRows ==
    <<ExampleRow(1, <<"a">>, <<"x">>), ExampleRow(2, <<"a">>, <<"x">>),
      ExampleRow(3, <<"a">>, <<"y">>)>>

C5_OriginalIsFirstRowOfKey ==
    ddPc \in {"deleteDuplicates", "delete", "deleteWait", "deleteDelay", "done"} =>
        /\ Len(duplicates) = Cardinality(LaterIndexes(allRows))
        /\ \A k \in 1..Len(duplicates) :
              \E j \in LaterIndexes(allRows) :
                  /\ duplicates[k].duplicate = allRows[j]
                  /\ duplicates[k].original = allRows[FirstIndexOfKey(allRows, j)]
                  /\ Cardinality({h \in LaterIndexes(allRows) : h <= j}) = k
        /\ allRows = ExampleRows =>
              duplicates = <<[original |-> ExampleRows[1], duplicate |-> ExampleRows[2],
                              key |-> <<"a", "|", "x">>]>>

C5_Witness ==
    /\ ddPc = "done"
    /\ allRows = ExampleRows
    /\ Len(duplicates) = 1
    /\ duplicates[1].original.id = 1 /\ duplicates[1].duplicate.id = 2

\* C6: deleteDuplicates attempts every listed duplicate once, in list order,
\* whatever failed before; on return successful + failed is the number of
\* duplicates, failed counts the deletions that raised, and errors holds one
\* entry with the row id of each failed deletion.
C6_EveryDuplicateAttemptedOnce ==
    /\ Len(requestLog) <= Len(duplicates)
    /\ \A k \in 1..Len(requestLog) :
          requestLog[k] = [kind |-> "delete", arg |-> duplicates[k].duplicate.id]
    /\ ddPc = "done" =>
          LET attempted == {duplicates[k].duplicate.id : k \in 1..Len(duplicates)}
              res == Get(ddRet)
          IN  /\ Len(requestLog) = Len(duplicates)
              /\ res.successful + res.failed = Len(duplicates)
              /\ res.successful = Cardinality(deletedIds)
              /\ res.failed = Cardinality(attempted \ deletedIds)
              /\ Len(res.errors) = res.failed
              /\ {res.errors[k].rowId : k \in 1..Len(res.errors)} = attempted \ deletedIds

C6_Witness ==
    /\ ddPc = "done"
    /\ Len(duplicates) = 10
    /\ Len(requestLog) = 10
    /\ Get(ddRet).successful = 8 /\ Get(ddRet).failed = 2
    /\ {Get(ddRet).errors[k].rowId : k \in 1..Len(Get(ddRet).errors)} = {1, 4}

(***************************************************************************)
(* Claims about the uploader                                               *)
(***************************************************************************)

RECURSIVE Flatten(_)
Flatten(ss) == IF ss = <<>> THEN <<>> ELSE Head(ss) \o Flatten(Tail(ss))

\* C7: the valid payloads are cut, in input order, into consecutive batches of
\* exactly 20 rows, the last of 1 to 20 rows; the batches are submitted in index
\* order, each after the response to the one before, so at most one request is
\* in flight.
C7_BatchesOfTwentySubmittedInOrder ==
    (upPc # "start" /\ Len(caplenaRows) > 0) =>
        /\ Flatten(batches) = caplenaRows
        /\ \A b \in 1..(Len(batches) - 1) : Len(batches[b]) = 20
        /\ Len(batches) >= 1
        /\ Len(batches[Len(batches)]) \in 1..20
        /\ \A k \in 1..Len(postLog) :
              postLog[k].index = k /\ postLog[k].rows = batches[k]
        /\ Len(postLog) <= Len(uploadResults) + 1
        /\ Cardinality(postInFlight) <= 1

C7_Witness ==
    /\ upPc = "done"
    /\ Len(caplenaRows) = 45
    /\ [b \in 1..Len(batches) |-> Len(batches[b])] = <<20, 20, 5>>
    /\ [k \in 1..Len(postLog) |-> postLog[k].index] = <<1, 2, 3>>

C10_NoValidPayloadNoRequest ==
    (upPc # "start"
     /\ \A i \in 1..Len(conversations) :
           transformConversationForCaplena(conversations[i]) = None) =>
        /\ upPc = "done"
        /\ IsSome(upRet) /\ Get(upRet).success = FALSE
        /\ postLog = <<>>

C10_Witness ==
    /\ upPc = "done"
    /\ Len(conversations) >= 3
    /\ \A i \in 1..Len(conversations) :
          transformConversationForCaplena(conversations[i]) = None
    /\ \E i \in 1..Len(conversations) :
          IsSome(conversations[i]) /\ IsSome(Get(conversations[i]).messages)
    /\ Get(upRet).success = FALSE
    /\ postLog = <<>>

\* a Transcript as the extractor hands it over: at least one message, every
\* message written by the end user
IsTranscript(conv) ==
    /\ IsSome(conv) /\ IsSome(Get(conv).messages)
    /\ Len(Get(Get(conv).messages)) >= 1
    /\ \A k \in 1..Len(Get(Get(conv).messages)) :
          Get(Get(conv).messages)[k].author.type = "user"

\* the bodies of the end-user messages of a transcript, in order
EndUserBodies(conv) ==
    LET msgs == IF IsSome(conv) /\ IsSome(Get(conv).messages)
                THEN Get(Get(conv).messages) ELSE <<>>
        idx == {k \in 1..Len(msgs) : msgs[k].author.type = "user"}
        nth(j) == CHOOSE k \in idx : Cardinality({h \in idx : h <= k}) = j
    IN  [j \in 1..Cardinality(idx) |-> msgs[nth(j)].body]

IsBlank(body) == \A k \in 1..Len(body) : body[k] \in {" ", "\t", "\n", "\r"}

\* the bodies of s that are not blank, in order
NonBlank(bodies) ==
    LET idx == {k \in 1..Len(bodies) : ~IsBlank(bodies[k])}
        nth(j) == CHOOSE k \in idx : Cardinality({h \in idx : h <= k}) = j
    IN  [j \in 1..Cardinality(idx) |-> bodies[nth(j)]]

\* the bodies one after the other, a blank line between two neighbours
RECURSIVE WithBlankLines(_)
WithBlankLines(bodies) ==
    IF Len(bodies) = 0 THEN <<>>
    ELSE IF Len(bodies) = 1 THEN bodies[1]
    ELSE WithBlankLines(SubSeq(bodies, 1, Len(bodies) - 1))
            \o <<"\n", "\n">> \o bodies[Len(bodies)]

\* what the rows of the input are expected to carry: for every transcript with
\* a non-blank end-user body, in input order, its text and its conversation id
RECURSIVE ExpectedPayloads(_)
ExpectedPayloads(convs) ==
    IF convs = <<>> THEN <<>>
    ELSE LET bodies == NonBlank(EndUserBodies(Head(convs)))
         IN  (IF bodies = <<>> THEN <<>>
              ELSE <<[text |-> WithBlankLines(bodies),
                      conversation_id |-> Get(Head(convs)).conversationId]>>)
                 \o ExpectedPayloads(Tail(convs))

\* C11 as stated: every transcript passed in gives exactly one row, whose text
\* is the concatenation of all message bodies of the transcript joined by a
\* blank line, so the number of rows equals the number of transcripts.
C11_OneRowPerTranscript ==
    (upPc # "start" /\ \A i \in 1..Len(conversations) : IsTranscript(conversations[i])) =>
        /\ Len(caplenaRows) = Len(conversations)
        /\ \A i \in 1..Len(caplenaRows) :
              ColumnText(caplenaRows[i], "text")
                  = WithBlankLines(EndUserBodies(conversations[i]))

\* C11 amended: a transcript gives one row exactly when at least one of its
\* end-user message bodies is not blank, and no row otherwise; the rows keep the
\* input order, and the text of a row is the concatenation of the non-blank
\* end-user bodies of its transcript, in order, joined by a blank line; on a
\* successful return exactly these rows were submitted.
C11_OneRowPerTranscriptWithText ==
    upPc # "start" =>
        /\ [k \in 1..Len(caplenaRows) |->
              [text |-> ColumnText(caplenaRows[k], "text"),
               conversation_id |-> ColumnText(caplenaRows[k], "conversation_id")]]
             = ExpectedPayloads(conversations)
        /\ (upPc = "done" /\ Get(upRet).success) =>
              Flatten([k \in 1..Len(postLog) |-> postLog[k].rows]) = caplenaRows

C11_Witness ==
    /\ upPc = "done"
    /\ Get(upRet).success
    /\ Len(conversations) = 4
    /\ \A i \in 1..Len(conversations) : IsTranscript(conversations[i])
    /\ Len(caplenaRows) = 2
    /\ ColumnText(caplenaRows[1], "text") = <<"h", "i", "\n", "\n", "y", "o">>
    /\ Len(EndUserBodies(conversations[2])) = 3

(***************************************************************************)
(* Claims about the fetcher                                                *)
(***************************************************************************)

ListRequests == SelectSeq(intercomLog, LAMBDA r : r.kind = "list")

\* ceil(n / d)
CeilDiv(n, d) == (n + d - 1) \div d

\* C12 as stated: listing a source of N summaries, none older than the
\* threshold, takes exactly ceil(N/50) list requests, for every N.
C12_CeilRequestsForEveryN ==
    (fetchCaller = "getConversationsSince" /\ fetchPc = "done" /\ srcOlder = 0) =>
        Len(ListRequests) = CeilDiv(srcFresh, 50)

\* C12 amended: listing a source of N summaries, none older than the threshold,
\* with the default limit of 1000 takes exactly ceil(N/50) list requests for
\* 1 <= N <= 1000, one request for N = 0 and 20 requests for N > 1000, where
\* the listing stops with the first 1000 summaries; request k carries the
\* cursor of summary 50 * (k - 1).
C12_CeilRequestsUpToLimit ==
    (fetchCaller = "getConversationsSince" /\ fetchPc = "done" /\ srcOlder = 0) =>
        /\ Len(ListRequests) = IF srcFresh = 0 THEN 1
                               ELSE IF srcFresh > 1000 THEN 20
                               ELSE CeilDiv(srcFresh, 50)
        /\ \A k \in 1..Len(ListRequests) :
              ListRequests[k].startingAfter = IF k = 1 THEN None ELSE Some(50 * (k - 1))
        /\ [k \in 1..Len(Get(fetchRet)) |-> Get(fetchRet)[k].id]
             = [k \in 1..(IF srcFresh > 1000 THEN 1000 ELSE srcFresh) |-> k]

C12_Witness ==
    /\ fetchCaller = "getConversationsSince" /\ fetchPc = "done"
    /\ srcFresh = 101 /\ srcOlder = 0
    /\ Len(ListRequests) = 3
    /\ Len(Get(fetchRet)) = 101

\* C13: when a list request fails during the pagination of
\* getConversationsSince, the call returns the records accumulated from the
\* earlier pages instead of raising.
C13_ListFailureReturnsPartial ==
    (fetchCaller = "getConversationsSince" /\ listFailed /\ fetched # <<>>) =>
        /\ fetchPc = "done"
        /\ fetchRet = Some(fetched)

DetailRequests == SelectSeq(intercomLog, LAMBDA r : r.kind = "detail")

SlotFinished(j) == slots[j].state \in {"resolved", "skipped"}

\* whether the detail of the source's conversation i has an end-user part
HasEndUserPart(i) ==
    \E k \in 1..Len(srcKinds[i].parts) : srcKinds[i].parts[k].author = Some([type |-> "user"])

\* the ids in ids, ascending
RECURSIVE Ascending(_)
Ascending(ids) ==
    IF ids = {} THEN <<>>
    ELSE LET least == CHOOSE i \in ids : \A h \in ids : i <= h
         IN  <<least>> \o Ascending(ids \ {least})

\* C14 as stated: the summary of a conversation whose detail request failed
\* stands at the conversation's place in the result of its page.
C14_SummaryTakesPlaceOfDetail ==
    \A j \in 1..Len(slots) :
        (SlotFinished(j) /\ toProcess[j].id \in detailFailed) =>
            \/ slots[j].value = Some(toProcess[j])
            \/ \E k \in 1..Len(fetched) : fetched[k] = toProcess[j]

\* C14 amended: in getAllConversationsWithTranscripts the promise of a
\* conversation whose detail request failed resolves with its summary, at the
\* conversation's place; in getConversationsWithTranscriptsSince nothing is
\* pushed for it. In both, every other conversation of the page gets its own
\* detail, no request of the page stays unanswered when the page ends, and the
\* listing goes on: when it ends without list failure (and without limit),
\* every conversation at or after the threshold was detail-requested once and
\* the result holds, in order, those whose request succeeded (of a full
\* extraction: those that have an end-user part).
C14_FailedDetailIsIsolated ==
    /\ \A j \in 1..Len(slots) :
          SlotFinished(j) =>
              LET id == toProcess[j].id
              IN  IF id \in detailFailed
                  THEN IF fetchCaller = "getAllConversationsWithTranscripts"
                       THEN slots[j].value = Some(toProcess[j])
                       ELSE slots[j].value = None
                  ELSE /\ IsSome(slots[j].value)
                       /\ Get(slots[j].value).id = id
                       /\ Get(slots[j].value).conversation_parts
                             = Some([conversation_parts |-> Some(srcKinds[id].parts)])
    /\ fetchPc # "details" => \A j \in 1..Len(slots) : SlotFinished(j)
    /\ \A k, l \in 1..Len(DetailRequests) :
          k # l => DetailRequests[k].id # DetailRequests[l].id
    /\ (fetchPc = "done" /\ ~listFailed
        /\ (fetchCaller = "getAllConversationsWithTranscripts" => limit = None)) =>
          /\ {DetailRequests[k].id : k \in 1..Len(DetailRequests)} = 1..srcFresh
          /\ [k \in 1..Len(fetched) |-> fetched[k].id]
               = Ascending({i \in 1..srcFresh :
                     /\ i \notin detailFailed
                     /\ fetchCaller = "getAllConversationsWithTranscripts"
                           => HasEndUserPart(i)})

C14_Witness ==
    /\ fetchCaller = "getAllConversationsWithTranscripts"
    /\ fetchPc = "done" /\ ~listFailed /\ limit = None
    /\ srcFresh = 3 /\ srcPageCap = 2
    /\ detailFailed = {1}
    /\ Len(ListRequests) = 2
    /\ totalProcessed = 3
    /\ [k \in 1..Len(fetched) |-> fetched[k].id] = <<2, 3>>

(***************************************************************************)
(* Claims about the daily sync                                             *)
(***************************************************************************)

\* the rows submitted to the bulk-write endpoint, over all batches
RECURSIVE SubmittedRows(_)
SubmittedRows(log) ==
    IF log = <<>> THEN <<>> ELSE Head(log).rows \o SubmittedRows(Tail(log))

\* C15: when a daily sync run has returned with success, for each conversation
\* updated at or after the threshold that has at least one end-user message that
\* is no stock response, its full detail was fetched and a row for it was
\* submitted to the bulk-write endpoint.
C15_SyncCarriesEveryConversation ==
    (syncPc = "done" /\ IsSome(syncRet) /\ Get(syncRet).success) =>
        \A i \in 1..srcFresh :
            IsSome(extractTranscriptData(Some(Detail(i)))) =>
                /\ \E k \in 1..Len(DetailRequests) : DetailRequests[k].id = i
                /\ \E k \in 1..Len(SubmittedRows(postLog)) :
                      ColumnText(SubmittedRows(postLog)[k], "conversation_id") = i

\* whether row has no value for the column ref: no such column, a null value
\* or the empty string
LacksValue(row, ref) ==
    \A i \in 1..Len(row.columns) :
        (row.columns[i].ref = ref /\ \A j \in 1..(i - 1) : row.columns[j].ref # ref) =>
            row.columns[i].value \in {None, Some(<<>>)}

IsSkippedRow(row) == LacksValue(row, "conversation_id") \/ LacksValue(row, "text")

\* C16: a row that lacks a value for the conversation_id column or for the text
\* column is neither the original nor the duplicate of an entry of the result of
\* identifyDuplicates, and the result is the one the rows give without it.
C16_RowWithoutValueIsSkipped ==
    ddPc \in {"deleteDuplicates", "delete", "deleteWait", "deleteDelay", "done"} =>
        /\ \A k \in 1..Len(duplicates) :
              /\ ~IsSkippedRow(duplicates[k].original)
              /\ ~IsSkippedRow(duplicates[k].duplicate)
        /\ duplicates = identifyDuplicates(SelectSeq(allRows, LAMBDA r : ~IsSkippedRow(r)))

C16_Witness ==
    /\ ddPc = "done"
    /\ Len(allRows) = 3
    /\ IsSkippedRow(allRows[1])
    /\ allRows[2].columns = allRows[1].columns
    /\ ~IsSkippedRow(allRows[3])
    /\ duplicates = <<>>

\* C17: in a deduplication pass every delete request comes after every
\* list-page request, and when a duplicate is identified or a delete request is
\* sent the listing has ended with every row of the destination listed.
C17_DeletesAfterLastListResponse ==
    /\ \A k, l \in 1..Len(requestLog) :
          (requestLog[k].kind = "delete" /\ requestLog[l].kind = "list") => l < k
    /\ (duplicates # <<>> \/ DeleteRequests # <<>>) =>
          /\ allRows = projectRows
          /\ ~hasMore
          /\ ddPc \notin {"start", "list", "listWait", "listDelay"}

C17_Witness ==
    /\ ddPc = "done"
    /\ Len(requestLog) = 3
    /\ requestLog[1].kind = "list" /\ requestLog[2].kind = "list"
    /\ requestLog[3].kind = "delete"
    /\ Len(projectRows) = 3
    /\ deletedIds = {3}

(***************************************************************************)
(* Claims about the CSV exporter                                           *)
(***************************************************************************)

\* the messages of the transcripts, in order, each with its conversation id
RECURSIVE WrittenMessages(_)
WrittenMessages(ts) ==
    IF ts = <<>> THEN <<>>
    ELSE (IF IsSome(Head(ts).messages)
          THEN [k \in 1..Len(Get(Head(ts).messages)) |->
                  [conversation_id |-> Head(ts).conversationId,
                   message_body |-> Get(Head(ts).messages)[k].body]]
          ELSE <<>>) \o WrittenMessages(Tail(ts))

\* what was written: the return value of convertToCSV, or the file that
\* initializeCSV and appendTranscript wrote
WrittenContent == IF csvMode = "exportToCSV" THEN Get(csvContent) ELSE Get(csvFile)

\* content is one header line followed by one line per written message, each
\* line ended by a line feed and beginning with the conversation id
HeaderAndOneLinePerMessage(content) ==
    LET pieces == split(content, LineFeed)
        expected == WrittenMessages(csvTranscripts)
    IN  /\ Len(pieces) = 1 + Len(expected) + 1
        /\ pieces[Len(pieces)] = <<>>
        /\ pieces[1] = headerLine
        /\ \A k \in 1..Len(expected) :
              LET id == quoted(expected[k].conversation_id)
              IN  /\ Len(pieces[k + 1]) > Len(id)
                  /\ SubSeq(pieces[k + 1], 1, Len(id)) = id

\* C18 as stated: writing N transcripts with M_i messages each, by convertToCSV
\* or by initializeCSV and appendTranscript on a new file, gives exactly one
\* header line followed by sum(M_i) data lines, whatever bodies and subjects
\* contain.
C18_HeaderAndDataLines ==
    csvPc \in {"written", "read"} => HeaderAndOneLinePerMessage(WrittenContent)

\* C18 amended: the same for initializeCSV and appendTranscript with any number
\* of transcripts and for convertToCSV with at least one transcript;
\* convertToCSV of no transcripts gives the empty string, without header line,
\* and exportToCSV then writes no file.
C18_HeaderAndDataLinesOfOneOrMore ==
    csvPc \in {"written", "read"} =>
        IF csvMode = "exportToCSV" /\ Len(csvTranscripts) = 0
        THEN WrittenContent = <<>> /\ csvFile \in {None, Some(<<>>)}
        ELSE /\ HeaderAndOneLinePerMessage(WrittenContent)
             /\ csvFile = Some(WrittenContent)

C18_Witness ==
    /\ csvPc = "written"
    /\ csvMode = "appendTranscript"
    /\ Len(csvTranscripts) = 2
    /\ Len(WrittenMessages(csvTranscripts)) = 4
    /\ \E k \in 1..4 : \E j \in 1..Len(WrittenMessages(csvTranscripts)[k].message_body) :
          WrittenMessages(csvTranscripts)[k].message_body[j] = LineFeed
    /\ Len(split(Get(csvFile), LineFeed)) = 6

HasLineBreak(text) == \E j \in 1..Len(text) : text[j] \in {LineFeed, CarriageReturn}

\* C19: reading back a file written by the exporter gives one data object per
\* written message, in order, whose conversation_id and message_body are the
\* original values, for bodies with commas and double quotes (bodies with line
\* breaks set aside).
C19_RoundTripRecoversIdAndBody ==
    (/\ csvPc = "read"
     /\ \A k \in 1..Len(WrittenMessages(csvTranscripts)) :
           ~HasLineBreak(WrittenMessages(csvTranscripts)[k].message_body)) =>
        /\ Len(Get(csvData)) = Len(WrittenMessages(csvTranscripts))
        /\ \A k \in 1..Len(Get(csvData)) :
              /\ Get(csvData)[k][<<"conversation_id">>]
                    = WrittenMessages(csvTranscripts)[k].conversation_id
              /\ Get(csvData)[k][<<"message_body">>]
                    = WrittenMessages(csvTranscripts)[k].message_body

(***************************************************************************)
(* Claims about the boilerplate filter                                     *)
(***************************************************************************)

\* whether the end-user part at position i of the conversation is dropped: no
\* message of the result has its id
IsDropped(i) ==
    \/ transcript = None
    \/ \A k \in 1..Len(Get(transcript).messages) :
          Get(transcript).messages[k].id # PartsOf(conversation)[i].id

BodyOfPart(part) == IF part.body = None THEN <<>> ELSE part.body[1]

C21_FailureIsAResultWithoutSuccess ==
    syncPc \in {"done", "thrown"} =>
        /\ syncPc = "done" /\ IsSome(syncRet)
        /\ (listFailed \/ postFailed # {} \/ (upPc = "done" /\ ~Get(upRet).success)) =>
              ~Get(syncRet).success
        /\ Get(syncRet).success =>
              \/ Get(syncRet).conversationCount = 0
              \/ upPc = "done" /\ Get(upRet).success

\* a run that reports success although uploadConversations returned success
\* false
SuccessReportedForFailedUpload ==
    /\ syncPc = "done" /\ Get(syncRet).success
    /\ upPc = "done" /\ ~Get(upRet).success

(***************************************************************************)
(* Claims about the startup                                                *)
(***************************************************************************)

CredentialMissing == Len(missingVars(envVars)) > 0

\* C22: with INTERCOM_ACCESS_TOKEN or CAPLENA_API_KEY missing, whatever the
\* entry point, the process never runs its pipeline and sends no request and
\* writes no file; once config is reached the configuration error is raised.
C22_MissingCredentialIsFatalAtStartup ==
    CredentialMissing =>
        /\ activityLog = <<>>
        /\ startPc \in {"idle", "loading", "failed"}
        /\ "config" \in loadedModules =>
              \/ startPc = "failed"
              \/ startPc = "loading" /\ topFrame.module = "config"

C22_Witness ==
    /\ entryPoint = "deduplicate"
    /\ envVars = {"INTERCOM_ACCESS_TOKEN"}
    /\ startPc = "failed"
    /\ "services/caplenaRowManager" \notin loadedModules
    /\ activityLog = <<>>

(***************************************************************************)
(* Claims about threshold pagination                                       *)
(***************************************************************************)

\* the page the source gave in answer to the k-th list request
RequestedPage(k) == ListPage(ListRequests[k].startingAfter)

HasOlderSummary(response) ==
    \E j \in 1..Len(response.conversations) :
        response.conversations[j].updated_at < sinceTimestamp

\* the summaries at or after the threshold on the pages requested, in order
RECURSIVE RetainedUpTo(_)
RetainedUpTo(k) ==
    IF k = 0 THEN <<>>
    ELSE RetainedUpTo(k - 1)
           \o SelectSeq(RequestedPage(k).conversations,
                        LAMBDA c : c.updated_at >= sinceTimestamp)

\* each list request after the first follows the cursor of the page before,
\* which had a cursor and no summary older than the threshold
FollowsCursor ==
    \A k \in 2..Len(ListRequests) :
        /\ RequestedPage(k - 1).pages.next # None
        /\ ListRequests[k].startingAfter
              = Some(Get(RequestedPage(k - 1).pages.next).starting_after)
        /\ ~HasOlderSummary(RequestedPage(k - 1))

SinceReturned == fetchCaller = "getConversationsSince" /\ fetchPc = "done"

IsGetAll == fetchCaller = "getAllConversationsWithTranscripts"

\* the detail fetches whose answer is outstanding
DetailsInFlight ==
    IF fetchPc = "details"
    THEN {j \in 1..Len(slots) : slots[j].state = "detailWait"}
    ELSE {}

\* the position of the latest list request in the log
LastListPosition ==
    CHOOSE q \in 1..Len(intercomLog) :
        /\ intercomLog[q].kind = "list"
        /\ \A r \in (q + 1)..Len(intercomLog) : intercomLog[r].kind # "list"

\* C24: in getAllConversationsWithTranscripts the detail requests of a page are
\* sent together, right after the list request and before any other request;
\* no list request is sent or awaited while a promise of the page before is
\* unresolved; and the detail fetches in flight never exceed the page size 50.
C24_DetailsOfAPageAwaitedAsGroup ==
    IsGetAll =>
        /\ fetchPc = "details" =>
              /\ Len(toProcess) <= Len(ListPage(startingAfter).conversations)
              /\ Len(intercomLog) >= LastListPosition + Len(toProcess)
              /\ \A j \in 1..Len(toProcess) :
                    intercomLog[LastListPosition + j]
                        = [kind |-> "detail", id |-> toProcess[j].id]
        /\ fetchPc \in {"list", "listWait", "listDelay", "done"} =>
              \A j \in 1..Len(slots) : slots[j].state = "resolved"
        /\ Cardinality(DetailsInFlight) <= Len(toProcess)
        /\ Cardinality(DetailsInFlight) <= perPage

C24_Witness ==
    /\ IsGetAll /\ fetchPc = "listWait"
    /\ Len(ListRequests) = 2
    /\ Len(slots) = 2
    /\ \A j \in 1..Len(slots) : slots[j].state = "resolved"
    /\ detailFailed = {2}
    /\ Len(DetailRequests) = 2
    /\ intercomLog[2].kind = "detail" /\ intercomLog[3].kind = "detail"

(***************************************************************************)
(* Claims about the pacing of deletions                                    *)
(***************************************************************************)

\* C25: deletions are issued one at a time, and once a delete request is
\* answered, with success or with failure, the loop either waits the pacing
\* delay or sends no further delete request: it never goes from an answer
\* straight to the next delete request.
C25_DelayBetweenEveryTwoDeletes ==
    [][ddPc = "deleteWait" => ddPc' \in {"deleteWait", "deleteDelay", "done"}]_vars

(***************************************************************************)
(* Claims about the key of a row                                           *)
(***************************************************************************)

\* C28: every entry of the result of identifyDuplicates pairs a row with an
\* earlier row that has the identical conversation_id value and the identical
\* text value.
C28_DuplicateHasSameIdAndText ==
    ddPc \in {"deleteDuplicates", "delete", "deleteWait", "deleteDelay", "done"} =>
        \A k \in 1..Len(duplicates) :
            /\ duplicates[k].original.id < duplicates[k].duplicate.id
            /\ ColumnText(duplicates[k].original, "conversation_id")
                  = ColumnText(duplicates[k].duplicate, "conversation_id")
            /\ ColumnText(duplicates[k].original, "text")
                  = ColumnText(duplicates[k].duplicate, "text")

\* the step is the answer of the source to the awaited list request
ListAnswered ==
    \E n \in PageSizes(Len(projectRows) - Len(allRows)) :
        /\ allRows' = allRows \o SubSeq(projectRows, Len(allRows) + 1, Len(allRows) + n)
        /\ hasMore' = (Len(allRows) + n < Len(projectRows))

\* C29: a step that ends the wait for a list-page request without the answer
\* of the source makes deduplicateProject throw and sends nothing; once it has
\* thrown, no duplicate has been identified, no delete request has been sent,
\* no row has been deleted and no result is returned.
C29_ListFailureDeletesNothing ==
    /\ [][(ddPc = "listWait" /\ ~ListAnswered) =>
             (ddPc' = "thrown" /\ requestLog' = requestLog)]_vars
    /\ [](ddPc = "thrown" =>
             /\ DeleteRequests = <<>>
             /\ duplicates = <<>>
             /\ deletedIds = {}
             /\ ddRet = None)

C29_Witness ==
    /\ ddPc = "thrown"
    /\ Len(projectRows) = 3
    /\ Len(allRows) = 2
    /\ RowKey(allRows[1]) = RowKey(allRows[2]) /\ HasKey(allRows[1])
    /\ Len(requestLog) = 2
    /\ DeleteRequests = <<>>

(***************************************************************************)
(* Claims about a source whose pages repeat                                *)
(***************************************************************************)

\* the ids of the detail requests sent so far, in the order they were sent
DetailRequestIds ==
    LET requests == SelectSeq(intercomLog, LAMBDA r : r.kind = "detail")
    IN  [k \in 1..Len(requests) |-> requests[k].id]

\* no element occurs twice
Distinct(seq) == \A k, l \in 1..Len(seq) : seq[k] = seq[l] => k = l

\* the cursors of the list requests sent so far
ListRequestCursors ==
    LET requests == SelectSeq(intercomLog, LAMBDA r : r.kind = "list")
    IN  [k \in 1..Len(requests) |-> requests[k].startingAfter]

\* the ids on the page the source answers the k-th list request with
PageIds(k) ==
    LET response == ListPage(ListRequestCursors[k])
    IN  {response.conversations[j].id : j \in 1..Len(response.conversations)}

\* C26: in getAllConversationsWithTranscripts no conversation id has two
\* detail requests and no id occurs twice among the conversations accumulated
\* or returned, whatever pages and cursors the source answers with.
C26_NoIdFetchedOrReturnedTwice ==
    /\ Distinct(DetailRequestIds)
    /\ Distinct([k \in 1..Len(fetched) |-> fetched[k].id])
    /\ IsSome(fetchRet) => Distinct([k \in 1..Len(Get(fetchRet)) |-> Get(fetchRet)[k].id])

\* two answered pages held the same summary, and conversations are returned
C26_Witness ==
    /\ fetchPc = "done" /\ ~listFailed
    /\ IsSome(fetchRet) /\ Len(Get(fetchRet)) >= 1
    /\ \E k, l \in 1..Len(ListRequestCursors) :
          k < l /\ PageIds(k) \cap PageIds(l) # {}
    /\ Len(DetailRequestIds) = srcFresh /\ srcFresh = MaxCursorIds

\* C27: every answered list request of getAllConversationsWithTranscripts
\* records a conversation id not seen before or ends the loop, the recorded ids
\* are ids of the source, and the list requests sent are at most one more than
\* the ids recorded: the loop ends after at most that many pages plus one.
C27_EveryPageRecordsAnIdOrEnds ==
    /\ [][fetchPc = "listWait" =>
            \/ fetchPc' = "listWait"
            \/ fetchPc' = "done"
            \/ processedIds # processedIds' /\ processedIds \subseteq processedIds']_vars
    /\ [](/\ processedIds \subseteq 1..(srcFresh + srcOlder)
          /\ Len(ListRequestCursors) <= Cardinality(processedIds) + 1
          /\ Len(DetailRequestIds) <= Cardinality(processedIds))

\* the loop has ended although every page came with a cursor
C27_Witness ==
    /\ fetchPc = "done" /\ ~listFailed /\ limit = None
    /\ \A to \in DOMAIN srcNext :
          IsSome(srcNext[to]) /\ Get(srcNext[to]).starting_after # 0
    /\ Len(ListRequestCursors) = srcFresh + 1
    /\ srcFresh = MaxCursorIds

(***************************************************************************)
(* Claims about the calls on one exporter                                  *)
(***************************************************************************)

\* the content of the file, empty without file
ContentOf(file) == IF IsSome(file) THEN Get(file) ELSE <<>>

\* how many lines of the file are the header line
HeaderLines(file) ==
    LET lines == split(ContentOf(file), LineFeed)
    IN  Cardinality({k \in 1..Len(lines) : lines[k] = headerLine})

\* an initializeCSV call of the calls made has no closeCSV call after it
OpenedByCalls ==
    \E k \in 1..Len(csvCalls) :
        /\ csvCalls[k].call = "initializeCSV"
        /\ \A l \in (k + 1)..Len(csvCalls) : csvCalls[l].call # "closeCSV"

\* the call that the step makes
ThisCall == csvCalls'[Len(csvCalls')]

\* the step adds whole lines after the content the file had, or leaves the
\* file as it was
OnlyAddsLines ==
    LET before == ContentOf(csvFile)
        after == ContentOf(csvFile')
    IN  /\ Len(after) >= Len(before)
        /\ SubSeq(after, 1, Len(before)) = before
        /\ Len(after) > Len(before) => after[Len(after)] = LineFeed
        /\ Len(after) = Len(before) => csvFile' = csvFile

\* C30: over any sequence of initializeCSV, appendTranscript and closeCSV
\* calls on one exporter, a step writes the header line only in the first
\* initializeCSV call and only if the file was absent or empty then, so the
\* exporter writes it at most once; initializeCSV on an initialized exporter
\* changes nothing; appendTranscript with no initializeCSV call before it or
\* with a closeCSV call since the last one throws and writes nothing; and
\* every call leaves the content of the file in place and at most adds lines
\* after it.
C30_CallsInAnyOrder ==
    [][csvCalls' # csvCalls =>
         /\ HeaderLines(csvFile') # HeaderLines(csvFile) =>
               /\ ThisCall.call = "initializeCSV"
               /\ \A k \in 1..Len(csvCalls) : csvCalls[k].call # "initializeCSV"
               /\ ContentOf(csvFile) = <<>>
               /\ HeaderLines(csvFile') = 1
         /\ (ThisCall.call = "initializeCSV" /\ initialized) =>
               /\ ThisCall.outcome = "returned"
               /\ UNCHANGED <<csvFile, headersWritten, initialized, fileHandle>>
         /\ (ThisCall.call = "appendTranscript" /\ ~OpenedByCalls) =>
               /\ ThisCall.outcome = "thrown"
               /\ UNCHANGED <<csvFile, headersWritten, initialized, fileHandle>>
         /\ (ThisCall.call = "appendTranscript" /\ OpenedByCalls) =>
               ThisCall.outcome = "returned"
         /\ OnlyAddsLines]_vars

\* initializeCSV, closeCSV, initializeCSV again and at last an appendTranscript
\* that has written: the file holds one header line and lines after it
C30_Witness ==
    /\ Len(csvCalls) = MaxCalls
    /\ csvCalls[1] = [call |-> "initializeCSV", outcome |-> "returned"]
    /\ csvCalls[2] = [call |-> "closeCSV", outcome |-> "returned"]
    /\ csvCalls[3] = [call |-> "initializeCSV", outcome |-> "returned"]
    /\ csvCalls[Len(csvCalls)] = [call |-> "appendTranscript", outcome |-> "returned"]
    /\ HeaderLines(csvFile) = 1
    /\ Len(split(ContentOf(csvFile), LineFeed)) >= 4
    /\ initialized /\ fileHandle

====
